---------------------------- MODULE Spec2Model ----------------------------
(***************************************************************************)
(* A model of CbmSim's simulation state container (CBMState) and of the   *)
(* trial engine (Control): ordered binary (de)serialisation of the state, *)
(* the spike statistics tracker, the runTrials loop with its pause and    *)
(* cancellation flags, and the setup/save sequencing of Control.          *)
(*                                                                         *)
(* The module holds several specifications over one tuple of variables;   *)
(* each specification drives one group of variables and leaves the others *)
(* at their initial values:                                                *)
(*   SpecCBMState   CBMState: generate, writeState, restore, readState     *)
(*   SpecSpikeSums  the spike statistics tracker of Control                *)
(*   SpecRunTrials  Control::runTrials with a GUI user (FairRunTrials adds *)
(*                  the progress of the engine's own thread)               *)
(***************************************************************************)
EXTENDS Integers, Sequences, FiniteSets, TLC

(***************************************************************************)
(* Bounds of the model.                                                    *)
(***************************************************************************)
\* largest zone count (numMZones) explored
MaxZones == 2
\* seeds drawn from the generator lie in 0..MaxSeed (INT_MAX in the program)
MaxSeed == 1
\* largest population size (num_mf) explored
MaxCells == 2
\* csStart ranges over 0..MaxCsStart, csLength over 1..MaxCsLength
MaxCsStart == 2
MaxCsLength == 2
\* number of timesteps after the CS window: trialTime = csStart+csLength+PostCs
PostCs == 1
\* update_spike_sums calls explored by SpecSpikeSums
MaxCalls == 1
\* homeoTuningTrials + granuleActDetectTrials + numTrainingTrials <= MaxTrials
MaxTrials == 2
\* GUI events the user produces during one run
MaxEvents == 2
\* setup calls explored by SpecSetup
MaxSetupCalls == 5

VARIABLES
    \* ---- CBMState (cbmstate.cpp) ----
    numZones,      \* zone count given to the generative constructor
    draws,         \* the values randGen.IRandom returns, in order
    simState,      \* the CBMState under test, or Null
    sim_file_buf,  \* the stream: a flat sequence of words, no tags, no lengths
    wlog,          \* order in which writeState emitted the sub-states
    restored,      \* the CBMState built from / read back from the stream
    rlog,          \* order in which the last read consumed the sub-states
    streamGood,    \* the stream's good() after the last read
    restoreOutcome,\* how the restoring constructor ended
    spc,           \* position of the serialisation scenario
    \* ---- timing configuration (control.h) ----
    csStart, csLength, trialTime,
    \* ---- spike statistics tracker (control.cpp) ----
    spike_sums_initialized,
    spike_sums,    \* per cell type: num_cells, the two sums, the two counters
    cell_spikes,   \* per cell type: the spike flags of the last timestep
    firing_rates,  \* per cell type: the four rates last computed
    lastOp,        \* the tracker operation that ran last
    lastTts,       \* the timestep given to the last update_spike_sums
    untouched,     \* reset_spike_sums ran and no update_spike_sums since
    ncalls,        \* update_spike_sums calls made by SpecSpikeSums so far
    \* ---- trial engine (Control::runTrials) ----
    sim_vis_mode,  \* GUI (gui != NULL) or NO_VIS (gui == NULL)
    homeoTuningTrials, granuleActDetectTrials, numTrainingTrials,
    in_run,        \* cleared by the GUI to cancel the run
    sim_is_paused, \* set and cleared by the GUI
    trial, tts,    \* the loop indices
    rpc,           \* position in runTrials
    kernel,        \* what the integration kernel reports: "ones" | "zeros"
    gtk_events,    \* the pending GUI events, oldest first
    userBudget,    \* events the user may still produce
    tsRun,         \* per trial (index + 1): timesteps executed
    cancelTrial,   \* trial in which in_run was cleared (-1: not cleared)
    cancelTs,      \* its timestep (-1: cleared in the end-of-trial loop)
    \* ---- setup and persistence (Control::build_sim .. save_sim_to_file) ----
    con_params_populated, act_params_populated,
    simCore, mfFreq, mfs,      \* TRUE once the object is allocated
    output_arrays_initialized,
    files,         \* the file system: per name, [exists, bytes, layout];
                   \* layout: the blocks the writer put there, in order
    fopen_log,     \* the fstreams the last call opened: <<name, mode>>
    lastCall,      \* the last setup call: [op, file, outcome]
    errs,          \* the <<op, outcome>> of every call that returned early
    nsetup,        \* setup calls made so far
    process,       \* "running", or "exited" once exit() was called
    open_failed,   \* the fstream the last call made for writing did not open
    bad_writes,    \* writes the last call attempted on an unopened stream
    \* ---- the timestep body (runTrials, runExperiment) ----
    csPhasicSize,  \* length of the phasic sub-window of the CS (control.h)
    num_go,        \* size of the Golgi population (connectivity parameter)
    experiment,    \* runExperiment's argument: the sequence of its trials
    calls,         \* the calls the last timestep made, in order: <<name, arg>>
    usCount,       \* updateErrDrive calls made in the current trial
    phaseLog       \* the phase of every timestep run in the current trial

stateVars == <<numZones, draws, simState, sim_file_buf, wlog, restored, rlog,
               streamGood, restoreOutcome, spc>>

timingVars == <<csStart, csLength, trialTime>>

trackerVars == <<spike_sums_initialized, spike_sums, cell_spikes,
                 firing_rates, lastOp, lastTts, untouched, ncalls>>

trialVars == <<sim_vis_mode, homeoTuningTrials, granuleActDetectTrials,
               numTrainingTrials, in_run, sim_is_paused, trial, tts, rpc,
               kernel, gtk_events, userBudget, tsRun, cancelTrial, cancelTs>>

setupVars == <<con_params_populated, act_params_populated, simCore, mfFreq,
               mfs, output_arrays_initialized, files, fopen_log, lastCall,
               errs, nsetup, process, open_failed, bad_writes>>

stepVars == <<csPhasicSize, num_go, experiment, calls, usCount, phaseLog>>

vars == <<stateVars, timingVars, trackerVars, trialVars, setupVars, stepVars>>

Null == [null |-> TRUE]

(***************************************************************************)
(* Sub-state records.  InNetConnectivityState, InNetActivityState,         *)
(* MZoneConnectivityState and MZoneActivityState are not part of the       *)
(* sources at hand; each is modelled as a fixed-length block of words      *)
(* that is written and read back raw ("byte-for-byte", positional).        *)
(***************************************************************************)
Kinds == {"innetCon", "innetAct", "mzoneCon", "mzoneAct"}

\* number of words a sub-state of each kind occupies in the stream
BlockLen(kind) ==
    CASE kind = "innetCon" -> 2
      [] kind = "innetAct" -> 1
      [] kind = "mzoneCon" -> 1
      [] kind = "mzoneAct" -> 2

\* a sub-state generated from a seed (seeded pseudo-random generation)
GenSubState(kind, seed) ==
    [i \in 1..BlockLen(kind) |-> (seed + i - 1) % (MaxSeed + 1)]

\* InNetActivityState(): the default-constructed activity state
DefaultInNetAct == [i \in 1..BlockLen("innetAct") |-> 0]

\* <Sub>State::writeState(outfile): the block's words, raw
SubWriteState(block) == block

\* <Sub>State(infile) / readState(infile): read BlockLen(kind) words at the
\* stream position.  rd = [pos, good].  A read that runs past the end of the
\* stream takes the words that are left, sets the stream's fail state and
\* leaves the rest of the block as it was (fill: indeterminate memory for a
\* freshly allocated block); a read on a failed stream transfers nothing.
SubReadState(kind, stream, rd, fill) ==
    LET n     == BlockLen(kind)
        avail == IF rd.good THEN Len(stream) - rd.pos + 1 ELSE 0
        got   == IF avail >= n THEN n ELSE IF avail > 0 THEN avail ELSE 0
    IN  [block |-> [i \in 1..n |-> IF i <= got THEN stream[rd.pos + i - 1]
                                              ELSE fill[i]],
         rd    |-> [pos  |-> rd.pos + got,
                    good |-> rd.good /\ got = n]]

(***************************************************************************)
(* CBMState                                                                *)
(***************************************************************************)
\* CRandomSFMT: the generator is a stream d of values and a position;
\* IRandom returns the value at the position and advances it
IRandom(gen) ==
    [val |-> gen.d[gen.pos], gen |-> [d |-> gen.d, pos |-> gen.pos + 1]]

\* mutant: a zone's activity seed is drawn before its connectivity seed
RECURSIVE GenZonesActSeedFirst(_, _, _, _)
GenZonesActSeedFirst(i, nZones, gen, acc) ==
    IF i >= nZones
    THEN [st |-> acc.st, use |-> acc.use, drawn |-> gen.pos - 1]
    ELSE LET a == IRandom(gen)
             c == IRandom(a.gen)
             mzoneCRSeed == c.val
             mzoneARSeed == a.val
         IN  GenZonesActSeedFirst(i + 1, nZones, c.gen,
                 [st  |-> [acc.st EXCEPT
                             !.mzoneConStates =
                                 Append(@, GenSubState("mzoneCon", mzoneCRSeed)),
                             !.mzoneActStates =
                                 Append(@, GenSubState("mzoneAct", mzoneARSeed))],
                  use |-> acc.use \o << <<"mzoneCon", i, a.gen.pos>>,
                                        <<"mzoneAct", i, gen.pos>> >>])

\* CBMState::CBMState(unsigned int nZones): the zone loop.  Each pass draws
\* mzoneCRSeed[i], then mzoneARSeed[i], and builds zone i's connectivity and
\* activity states from them.  use is the ghost log of <<kind, zone, n>>:
\* the state of that kind and zone was built from the n-th draw.
RECURSIVE GenZones(_, _, _, _)
GenZones(i, nZones, gen, acc) ==
    IF i >= nZones
    THEN [st |-> acc.st, use |-> acc.use, drawn |-> gen.pos - 1]
    ELSE LET c == IRandom(gen)
             a == IRandom(c.gen)
             mzoneCRSeed == c.val
             mzoneARSeed == a.val
         IN  GenZones(i + 1, nZones, a.gen,
                 [st  |-> [acc.st EXCEPT
                             !.mzoneConStates =
                                 Append(@, GenSubState("mzoneCon", mzoneCRSeed)),
                             !.mzoneActStates =
                                 Append(@, GenSubState("mzoneAct", mzoneARSeed))],
                  use |-> acc.use \o << <<"mzoneCon", i, gen.pos>>,
                                        <<"mzoneAct", i, c.gen.pos>> >>])

\* CBMState::CBMState(unsigned int nZones), the generative constructor, on
\* a generator that returns the values d: the state built, the number of
\* draws made and the log of their use.  innetCRSeed is drawn first.
CBMState_GenerateTrace(nZones, d) ==
    LET r == IRandom([d |-> d, pos |-> 1])
        innetCRSeed == r.val
    IN  GenZones(0, nZones, r.gen,
            [st  |-> [numZones       |-> nZones,
                      innetConState  |-> GenSubState("innetCon", innetCRSeed),
                      innetActState  |-> DefaultInNetAct,
                      mzoneConStates |-> <<>>,
                      mzoneActStates |-> <<>>],
             use |-> << <<"innetCon", 0, 1>> >>])

CBMState_Generate(nZones, d) == CBMState_GenerateTrace(nZones, d).st

\* CBMState::writeState: returns [bytes, order]; order is the ghost log of
\* <<kind, zone>> tags in emission order.
RECURSIVE WriteZones(_, _, _)
WriteZones(i, st, out) ==
    IF i >= st.numZones THEN out
    ELSE WriteZones(i + 1, st,
            [bytes |-> out.bytes \o SubWriteState(st.mzoneConStates[i + 1])
                                 \o SubWriteState(st.mzoneActStates[i + 1]),
             order |-> out.order \o << <<"mzoneCon", i>>, <<"mzoneAct", i>> >>])

\* mutant: each zone's activity state is written before its connectivity
RECURSIVE WriteZonesActFirst(_, _, _)
WriteZonesActFirst(i, st, out) ==
    IF i >= st.numZones THEN out
    ELSE WriteZonesActFirst(i + 1, st,
            [bytes |-> out.bytes \o SubWriteState(st.mzoneActStates[i + 1])
                                 \o SubWriteState(st.mzoneConStates[i + 1]),
             order |-> out.order \o << <<"mzoneAct", i>>, <<"mzoneCon", i>> >>])

CBMState_writeState_ActFirst(st, stream) ==
    WriteZonesActFirst(0, st,
        [bytes |-> stream \o SubWriteState(st.innetConState)
                          \o SubWriteState(st.innetActState),
         order |-> << <<"innetCon", 0>>, <<"innetAct", 0>> >>])

CBMState_writeState(st, stream) ==
    WriteZones(0, st,
        [bytes |-> stream \o SubWriteState(st.innetConState)
                          \o SubWriteState(st.innetActState),
         order |-> << <<"innetCon", 0>>, <<"innetAct", 0>> >>])

\* The read loop shared by the restoring constructor and readState.
\* acc = [st, rd, order].  prev holds what the blocks' memory held before
\* the read, in the shape of a CBMState.
RECURSIVE ReadZones(_, _, _, _)
ReadZones(i, stream, prev, acc) ==
    IF i >= acc.st.numZones THEN acc
    ELSE LET c == SubReadState("mzoneCon", stream, acc.rd,
                               prev.mzoneConStates[i + 1])
             a == SubReadState("mzoneAct", stream, c.rd,
                               prev.mzoneActStates[i + 1])
         IN  ReadZones(i + 1, stream, prev,
                 [st    |-> [acc.st EXCEPT
                                !.mzoneConStates = Append(@, c.block),
                                !.mzoneActStates = Append(@, a.block)],
                  rd    |-> a.rd,
                  order |-> acc.order \o << <<"mzoneCon", i>>, <<"mzoneAct", i>> >>])

\* mutant: the loop stops one zone short
RECURSIVE ReadZonesShort(_, _, _, _)
ReadZonesShort(i, stream, prev, acc) ==
    IF i >= acc.st.numZones - 1
    THEN [acc EXCEPT
             !.st.mzoneConStates = Append(@, prev.mzoneConStates[i + 1]),
             !.st.mzoneActStates = Append(@, prev.mzoneActStates[i + 1]),
             !.order = @ \o << <<"mzoneCon", i>>, <<"mzoneAct", i>> >>]
    ELSE LET c == SubReadState("mzoneCon", stream, acc.rd,
                               prev.mzoneConStates[i + 1])
             a == SubReadState("mzoneAct", stream, c.rd,
                               prev.mzoneActStates[i + 1])
         IN  ReadZonesShort(i + 1, stream, prev,
                 [st    |-> [acc.st EXCEPT
                                !.mzoneConStates = Append(@, c.block),
                                !.mzoneActStates = Append(@, a.block)],
                  rd    |-> a.rd,
                  order |-> acc.order \o << <<"mzoneCon", i>>, <<"mzoneAct", i>> >>])

ReadAll(nZones, stream, prev) ==
    LET c == SubReadState("innetCon", stream, [pos |-> 1, good |-> TRUE],
                          prev.innetConState)
        a == SubReadState("innetAct", stream, c.rd, prev.innetActState)
    IN  ReadZones(0, stream, prev,
            [st    |-> [numZones       |-> nZones,
                        innetConState  |-> c.block,
                        innetActState  |-> a.block,
                        mzoneConStates |-> <<>>,
                        mzoneActStates |-> <<>>],
             rd    |-> a.rd,
             order |-> << <<"innetCon", 0>>, <<"innetAct", 0>> >>])

ReadAllShort(nZones, stream, prev) ==
    LET c == SubReadState("innetCon", stream, [pos |-> 1, good |-> TRUE],
                          prev.innetConState)
        a == SubReadState("innetAct", stream, c.rd, prev.innetActState)
    IN  ReadZonesShort(0, stream, prev,
            [st    |-> [numZones       |-> nZones,
                        innetConState  |-> c.block,
                        innetActState  |-> a.block,
                        mzoneConStates |-> <<>>,
                        mzoneActStates |-> <<>>],
             rd    |-> a.rd,
             order |-> << <<"innetCon", 0>>, <<"innetAct", 0>> >>])

\* freshly allocated sub-states of nZones zones: every word indeterminate
FreshBlocks(nZones, garbage) ==
    [numZones       |-> nZones,
     innetConState  |-> [j \in 1..BlockLen("innetCon") |-> garbage],
     innetActState  |-> [j \in 1..BlockLen("innetAct") |-> garbage],
     mzoneConStates |-> [z \in 1..nZones |->
                            [j \in 1..BlockLen("mzoneCon") |-> garbage]],
     mzoneActStates |-> [z \in 1..nZones |->
                            [j \in 1..BlockLen("mzoneAct") |-> garbage]]]

\* mutant of the restoring constructor: the last zone is never read
CBMState_Restore_Short(nZones, stream, garbage) ==
    LET r == ReadAllShort(nZones, stream, FreshBlocks(nZones, garbage))
    IN  [st |-> r.st, order |-> r.order, good |-> r.rd.good,
         outcome |-> "constructed"]

\* CBMState::CBMState(nZones, plast_type, sim_file_buf): the restoring
\* constructor.  Every block is freshly allocated, so what a short read
\* leaves unread is indeterminate: garbage is the value found there.
\* No stream state is tested and nothing is thrown: a state is returned.
CBMState_Restore(nZones, stream, garbage) ==
    LET r == ReadAll(nZones, stream, FreshBlocks(nZones, garbage))
    IN  [st |-> r.st, order |-> r.order, good |-> r.rd.good,
         outcome |-> "constructed"]

\* CBMState::readState(infile): reads into the existing sub-states.
CBMState_readState(st, stream) ==
    LET r == ReadAll(st.numZones, stream, st)
    IN  [st |-> r.st, order |-> r.order, good |-> r.rd.good]

\* the four owned pointers of a CBMState
PtrNames == {"innetConState", "innetActState", "mzoneConStates",
             "mzoneActStates"}

\* what a pointer member nothing was assigned to can hold
PointerValues == {"nullptr", "wild"}

\* CBMState::CBMState() {}: no member is initialised, so numZones and the
\* four pointers hold whatever the storage held: g and p are those values
CBMState_Default(g, p) == [numZones |-> g, ptrs |-> p]

\* an object a generating or restoring constructor built (its pointers are
\* the blocks it allocated)
IsConstructed(obj) == "ptrs" \notin DOMAIN obj

\* CBMState::~CBMState: the outcomes the destructor can have.  It deletes
\* the two input-network pointers, mzoneConStates[i] and mzoneActStates[i]
\* for i < numZones, then the two arrays, testing nothing: with a wild
\* pointer, or with null arrays and numZones > 0, the behaviour is undefined
CBMState_Destroy(obj) ==
    IF IsConstructed(obj) THEN {"freed"}
    ELSE IF /\ \A k \in PtrNames : obj.ptrs[k] = "nullptr"
            /\ obj.numZones = 0
         THEN {"freed"}
         ELSE {"freed", "crash"}

\* CBMState::getNumZones
getNumZones(st) == st.numZones

(***************************************************************************)
(* Spike statistics tracker (Control::*_spike_sums, calculate_firing_rates)*)
(***************************************************************************)
\* The cell types.  The program has NUM_CELL_TYPES = 8 of them (MF, GR, GO,
\* BC, SC, PC, IO, DCN), all treated alike by every loop of the tracker; the
\* model keeps two, with independent population sizes.
CellTypes == {"MF", "GO"}

\* num_mf, num_go: the population sizes the build file supplies
PopulationSizes == {[t \in CellTypes |-> IF t = "MF" THEN n ELSE 2] :
                        n \in 1..MaxCells}

\* values an indeterminate read can produce
Indeterminate == 0..MaxSeed

RECURSIVE SumSeq(_)
SumSeq(q) == IF q = <<>> THEN 0 ELSE Head(q) + SumSeq(Tail(q))

\* std::sort on a counter array: ascending
RECURSIVE Insert(_, _)
Insert(x, q) ==
    IF q = <<>> THEN <<x>>
    ELSE IF x <= Head(q) THEN <<x>> \o q
    ELSE <<Head(q)>> \o Insert(x, Tail(q))

\* mutant: the comparison of the sort is reversed
RECURSIVE InsertDesc(_, _)
InsertDesc(x, q) ==
    IF q = <<>> THEN <<x>>
    ELSE IF x >= Head(q) THEN <<x>> \o q
    ELSE <<Head(q)>> \o InsertDesc(x, Tail(q))

RECURSIVE SortAsc_Descending(_)
SortAsc_Descending(q) ==
    IF q = <<>> THEN <<>>
    ELSE InsertDesc(Head(q), SortAsc_Descending(Tail(q)))

RECURSIVE SortAsc(_)
SortAsc(q) == IF q = <<>> THEN <<>> ELSE Insert(Head(q), SortAsc(Tail(q)))

Zeros(n) == [j \in 1..n |-> 0]

\* Control::initialize_spike_sums
initialize_spike_sums(sizes) ==
    [t \in CellTypes |->
        [num_cells            |-> sizes[t],
         non_cs_spike_sum     |-> 0,
         cs_spike_sum         |-> 0,
         non_cs_spike_counter |-> Zeros(sizes[t]),
         cs_spike_counter     |-> Zeros(sizes[t])]]

\* mutant: the post-CS period is tallied as non-CS (a bare else)
update_spike_sums_BareElse(ss, spikes, ts, cs, cl) ==
    IF ts >= cs /\ ts < cs + cl
    THEN [t \in CellTypes |->
            [ss[t] EXCEPT
                !.cs_spike_sum = @ + SumSeq(spikes[t]),
                !.cs_spike_counter =
                    [j \in 1..ss[t].num_cells |-> @[j] + spikes[t][j]]]]
    ELSE [t \in CellTypes |->
            [ss[t] EXCEPT
                !.non_cs_spike_sum = @ + SumSeq(spikes[t]),
                !.non_cs_spike_counter =
                    [j \in 1..ss[t].num_cells |-> @[j] + spikes[t][j]]]]

\* Control::update_spike_sums(tts), with cell_spikes already exported
update_spike_sums(ss, spikes, ts, cs, cl) ==
    IF ts >= cs /\ ts < cs + cl
    THEN [t \in CellTypes |->
            [ss[t] EXCEPT
                !.cs_spike_sum = @ + SumSeq(spikes[t]),
                !.cs_spike_counter =
                    [j \in 1..ss[t].num_cells |-> @[j] + spikes[t][j]]]]
    ELSE IF ts < cs
    THEN [t \in CellTypes |->
            [ss[t] EXCEPT
                !.non_cs_spike_sum = @ + SumSeq(spikes[t]),
                !.non_cs_spike_counter =
                    [j \in 1..ss[t].num_cells |-> @[j] + spikes[t][j]]]]
    ELSE ss

\* mutant: only the CS tallies are zeroed
reset_spike_sums_CsOnly(ss) ==
    [t \in CellTypes |->
        [ss[t] EXCEPT
            !.cs_spike_sum = 0,
            !.cs_spike_counter = Zeros(ss[t].num_cells)]]

\* mutant: the sums are zeroed, the per-cell counters are not
reset_spike_sums_SumsOnly(ss) ==
    [t \in CellTypes |->
        [ss[t] EXCEPT !.cs_spike_sum = 0, !.non_cs_spike_sum = 0]]

\* Control::reset_spike_sums
reset_spike_sums(ss) ==
    [t \in CellTypes |->
        [ss[t] EXCEPT
            !.cs_spike_sum = 0,
            !.non_cs_spike_sum = 0,
            !.non_cs_spike_counter = Zeros(ss[t].num_cells),
            !.cs_spike_counter = Zeros(ss[t].num_cells)]]

\* A float: a finite value num/den (den > 0), an infinity or a NaN.
\* FDiv is IEEE division of the exact values n and d.
FDiv(n, d) ==
    IF d = 0
    THEN IF n = 0 THEN [kind |-> "nan", num |-> 0, den |-> 0]
                  ELSE [kind |-> "inf", num |-> n, den |-> 0]
    ELSE IF d < 0 THEN [kind |-> "num", num |-> 0 - n, den |-> 0 - d]
                  ELSE [kind |-> "num", num |-> n, den |-> d]

FZero == [kind |-> "num", num |-> 0, den |-> 1]

\* counter[idx] for a 0-based idx; a read outside the array is indeterminate
ReadCounter(counter, idx, oob) ==
    IF idx >= 0 /\ idx < Len(counter) THEN counter[idx + 1] ELSE oob

\* the two counter indices (0-based) calculate_firing_rates reads for a
\* median: num_cells / 2 - 1 and num_cells / 2, in integer division
MedianIndices(n) == <<n \div 2 - 1, n \div 2>>

\* Control::calculate_firing_rates.  cs is csStart; oob is the value an
\* out-of-range counter read produces.  Returns the sorted tracker and the
\* rates.  non_cs_time = (csStart - 1) / 1000.0 seconds; the CS duration is
\* the literal 2.0 seconds.
calculate_firing_rates(ss, cs, oob) ==
    LET non_cs_ms == cs - 1
        sorted == [t \in CellTypes |->
                     [ss[t] EXCEPT
                        !.non_cs_spike_counter = SortAsc(@),
                        !.cs_spike_counter = SortAsc(@)]]
        \* for num_cells = 1 the unsigned index wraps to 2^32 - 1 (beyond
        \* TLC's integers); it is kept as -1: outside the array either way
        lo(t) == MedianIndices(sorted[t].num_cells)[1]
        hi(t) == MedianIndices(sorted[t].num_cells)[2]
    IN  [ss |-> sorted,
         fr |-> [t \in CellTypes |->
            [non_cs_median_fr |->
                FDiv(1000 * (ReadCounter(sorted[t].non_cs_spike_counter, lo(t), oob)
                           + ReadCounter(sorted[t].non_cs_spike_counter, hi(t), oob)),
                     2 * non_cs_ms),
             cs_median_fr |->
                FDiv(ReadCounter(sorted[t].cs_spike_counter, lo(t), oob)
                   + ReadCounter(sorted[t].cs_spike_counter, hi(t), oob), 4),
             non_cs_mean_fr |->
                FDiv(1000 * sorted[t].non_cs_spike_sum,
                     non_cs_ms * sorted[t].num_cells),
             cs_mean_fr |->
                FDiv(sorted[t].cs_spike_sum, 2 * sorted[t].num_cells)]]]

\* the spike flags one timestep can export, for the given population sizes
SpikeVectors(ss) ==
    {sp \in [CellTypes -> UNION {[1..n -> {0, 1}] : n \in 1..(MaxCells + 2)}] :
        \A t \in CellTypes : Len(sp[t]) = ss[t].num_cells}

(***************************************************************************)
(* Trial engine: Control::runTrials                                        *)
(***************************************************************************)
\* the GUI's events: pause and continue toggle sim_is_paused, stop clears
\* in_run.  The GUI callbacks are not part of the sources at hand.
GuiEvents == {"pause", "continue", "stop"}

\* gtk_main_iteration() dispatching event e: the flags afterwards
HandleEvent(e, run, paused) ==
    [in_run        |-> IF e = "stop" THEN FALSE ELSE run,
     sim_is_paused |-> IF e = "pause" THEN TRUE
                       ELSE IF e = "continue" THEN FALSE ELSE paused]

\* int numTotalTrials = preTrialNumber + numTrainingTrials
numTotalTrials ==
    homeoTuningTrials + granuleActDetectTrials + numTrainingTrials

\* mutant: the loop runs one trial too many
WhileCondition_OffByOne(tr, total, run) == tr <= total /\ run

\* while (trial < numTotalTrials && in_run)
WhileCondition(tr, total, run) == tr < total /\ run

\* mutant: the timestep loop also stops when the run is cancelled
ForCondition_ChecksInRun(ts, len, run) == ts < len /\ run

\* mutant: the timestep loop runs one timestep too many
ForCondition_Inclusive(ts, len, run) == ts <= len

\* for (int tts = 0; tts < trialTime; tts++)
ForCondition(ts, len, run) == ts < len

\* mutant: the end-of-trial loop ignores cancellation (while (true))
PauseLoopState_IgnoresInRun(run, pending, paused) ==
    IF pending \/ paused THEN "iterate" ELSE "break"

\* mutant: the end-of-trial loop is left as soon as no event is pending
PauseLoopState_IgnoresPause(run, pending, paused) ==
    IF ~run THEN "exit"
    ELSE IF pending THEN "iterate" ELSE "break"

\* while (in_run) { if (gtk_events_pending() || sim_is_paused)
\*     gtk_main_iteration(); else break; }
PauseLoopState(run, pending, paused) ==
    IF ~run THEN "exit"
    ELSE IF pending \/ paused THEN "iterate" ELSE "break"

\* the spike flags the kernel exports after calcActivity
KernelSpikes(k, ss) ==
    [t \in CellTypes |->
        [j \in 1..ss[t].num_cells |-> IF k = "ones" THEN 1 ELSE 0]]

\* mutant: the CS window is closed at its upper end
update_spike_sums_InclusiveEnd(ss, spikes, ts, cs, cl) ==
    IF ts >= cs /\ ts <= cs + cl
    THEN update_spike_sums(ss, spikes, cs, cs, cl)
    ELSE update_spike_sums(ss, spikes, ts, cs, cl)

\* if (gui != NULL) update_spike_sums(tts);
TallyTimestep(ss, spikes, ts, cs, cl) ==
    update_spike_sums(ss, spikes, ts, cs, cl)

(***************************************************************************)
(* The body of one timestep of runTrials                                   *)
(***************************************************************************)
StepIdle ==
    /\ csPhasicSize = 0
    /\ num_go = 0
    /\ experiment = <<>>
    /\ calls = <<>>
    /\ usCount = 0
    /\ phaseLog = <<>>

\* the phase of timestep ts of a trial with CS window [cs, cs + cl): the
\* windows update_spike_sums and the timestep body test
PhaseOf(ts, cs, cl) ==
    IF ts >= cs /\ ts < cs + cl THEN "CS"
    ELSE IF ts < cs THEN "PreCS"
    ELSE "PostCS"

\* mutant: the US is delivered at the onset of the CS
DeliverUS_runTrials_AtCsOnset(ts, cs, cl) == ts = cs

\* runTrials: if (tts == csStart + csLength) updateErrDrive(0, 0.3)
DeliverUS_runTrials(ts, cs, cl) == ts = cs + cl

\* mutant: the phasic sub-window is measured from the start of the trial
MFSource_runTrials_PhasicFromZero(ts, cs, cl, phasic) ==
    IF ts < cs \/ ts >= cs + cl THEN "MFBG"
    ELSE IF ts >= cs /\ ts < phasic THEN "MFFreqInCSPhasic"
    ELSE "MFInCSTonicA"

\* runTrials: the frequency profile handed to calcPoissActivity
MFSource_runTrials(ts, cs, cl, phasic) ==
    IF ts < cs \/ ts >= cs + cl THEN "MFBG"
    ELSE IF ts >= cs /\ ts < cs + phasic THEN "MFFreqInCSPhasic"
    ELSE "MFInCSTonicA"

\* the CS-window exports of the timestep body
CsExports ==
    << <<"exportgSum_MFGO", "">>, <<"exportgSum_GRGO", "">>,
       <<"exportAPGO", "">> >>

\* mutant: the integration step is made before the new input is fed
TimestepCalls_runTrials_StaleInput(ts, cs, cl, phasic, gui, pending) ==
    (IF DeliverUS_runTrials(ts, cs, cl)
     THEN << <<"updateErrDrive", "0.3">> >> ELSE <<>>)
    \o << <<"calcPoissActivity", MFSource_runTrials(ts, cs, cl, phasic)>>,
          <<"calcTrueMFs", "MFBG">>,
          <<"calcActivity", "">>,
          <<"updateTrueMFs", "">>,
          <<"updateMFInput", "">> >>
    \o (IF gui THEN << <<"update_spike_sums", "">> >> ELSE <<>>)
    \o (IF ts >= cs /\ ts < cs + cl THEN CsExports ELSE <<>>)
    \o (IF gui THEN << <<"gtk_events_pending", "">> >> ELSE <<>>)
    \o (IF gui /\ pending THEN << <<"gtk_main_iteration", "">> >> ELSE <<>>)

\* runTrials: the calls of one pass of the timestep loop body, in order
TimestepCalls_runTrials(ts, cs, cl, phasic, gui, pending) ==
    (IF DeliverUS_runTrials(ts, cs, cl)
     THEN << <<"updateErrDrive", "0.3">> >> ELSE <<>>)
    \o << <<"calcPoissActivity", MFSource_runTrials(ts, cs, cl, phasic)>>,
          <<"calcTrueMFs", "MFBG">>,
          <<"updateTrueMFs", "">>,
          <<"updateMFInput", "">>,
          <<"calcActivity", "">> >>
    \o (IF gui THEN << <<"update_spike_sums", "">> >> ELSE <<>>)
    \o (IF ts >= cs /\ ts < cs + cl THEN CsExports ELSE <<>>)
    \o (IF gui THEN << <<"gtk_events_pending", "">> >> ELSE <<>>)
    \o (IF gui /\ pending THEN << <<"gtk_main_iteration", "">> >> ELSE <<>>)

(***************************************************************************)
(* The body of one timestep of runExperiment.  A trial of the experiment   *)
(* is [CSuse, CSonset, CSoffset, USuse, USonset], the flags being ints.    *)
(***************************************************************************)
\* mutant: the US is delivered whether or not the trial uses it
DeliverUS_runExperiment_IgnoresUse(useUS, ts, onsetUS) == ts = onsetUS

\* runExperiment: if (useUS && ts == onsetUS) updateErrDrive(0, 0.0)
DeliverUS_runExperiment(useUS, ts, onsetUS) == useUS # 0 /\ ts = onsetUS

\* mutant: the background drive is also sampled at the last CS timestep
MFSources_runExperiment_Overlap(ts, tr) ==
    (IF ts < tr.CSonset \/ ts >= tr.CSoffset - 1
     THEN <<"MFBG">> ELSE <<>>)
    \o (IF ts >= tr.CSonset /\ ts < tr.CSoffset
        THEN <<IF tr.CSuse # 0 THEN "MFInCSTonicA" ELSE "MFBG">>
        ELSE <<>>)

\* runExperiment: the frequency profiles handed to calcPoissActivity by
\* its two if statements, in order
MFSources_runExperiment(ts, tr) ==
    (IF ts < tr.CSonset \/ ts >= tr.CSoffset
     THEN <<"MFBG">> ELSE <<>>)
    \o (IF ts >= tr.CSonset /\ ts < tr.CSoffset
        THEN <<IF tr.CSuse # 0 THEN "MFInCSTonicA" ELSE "MFBG">>
        ELSE <<>>)

\* mutant: the front end is given its turn before the kernel integrates
TimestepCalls_runExperiment_YieldFirst(ts, tr, gui, pending) ==
    (IF gui THEN << <<"gtk_events_pending", "">> >> ELSE <<>>)
    \o (IF gui /\ pending THEN << <<"gtk_main_iteration", "">> >> ELSE <<>>)
    \o (IF DeliverUS_runExperiment(tr.USuse, ts, tr.USonset)
        THEN << <<"updateErrDrive", "0.0">> >> ELSE <<>>)
    \o [k \in 1..Len(MFSources_runExperiment(ts, tr)) |->
           <<"calcPoissActivity", MFSources_runExperiment(ts, tr)[k]>>]
    \o << <<"calcTrueMFs", "MFBG">>,
          <<"updateTrueMFs", "">>,
          <<"updateMFInput", "">>,
          <<"calcActivity", "">> >>
    \o (IF ts >= tr.CSonset /\ ts < tr.CSoffset THEN CsExports ELSE <<>>)
    \o (IF ts = tr.CSoffset THEN << <<"countGOSpikes", "">> >> ELSE <<>>)

\* runExperiment: the calls of one pass of the timestep loop body, in order
TimestepCalls_runExperiment(ts, tr, gui, pending) ==
    (IF DeliverUS_runExperiment(tr.USuse, ts, tr.USonset)
     THEN << <<"updateErrDrive", "0.0">> >> ELSE <<>>)
    \o [k \in 1..Len(MFSources_runExperiment(ts, tr)) |->
           <<"calcPoissActivity", MFSources_runExperiment(ts, tr)[k]>>]
    \o << <<"calcTrueMFs", "MFBG">>,
          <<"updateTrueMFs", "">>,
          <<"updateMFInput", "">>,
          <<"calcActivity", "">> >>
    \o (IF ts >= tr.CSonset /\ ts < tr.CSoffset THEN CsExports ELSE <<>>)
    \o (IF ts = tr.CSoffset THEN << <<"countGOSpikes", "">> >> ELSE <<>>)
    \o (IF gui THEN << <<"gtk_events_pending", "">> >> ELSE <<>>)
    \o (IF gui /\ pending THEN << <<"gtk_main_iteration", "">> >> ELSE <<>>)

\* the number of elements countGOSpikes sorts
GoSortRange == 4096

\* Control::countGOSpikes(goSpkCounter, medTrials), goSpkCounter being the
\* array int goSpkCounter[num_go] of runExperiment: the elements it
\* touches.  It sorts [0, 4096), reads 2047 and 2048 for the median and sums
\* [0, n), n being num_go.
countGOSpikes_Accesses(n) ==
    [sorted |-> <<0, GoSortRange>>,
     reads  |-> {2047, 2048},
     summed |-> <<0, n>>]

\* mutant: the last trial of the experiment is left out
ExperimentForCondition_SkipsLast(tr, num_trials) == tr < num_trials - 1

\* for (int trial = 0; trial < experiment.num_trials; trial++)
ExperimentForCondition(tr, num_trials) == tr < num_trials

(***************************************************************************)
(* Values of the variable groups a specification does not drive.           *)
(***************************************************************************)
StateIdle ==
    /\ numZones = 1
    /\ draws = <<>>
    /\ simState = Null
    /\ sim_file_buf = <<>>
    /\ wlog = <<>>
    /\ restored = Null
    /\ rlog = <<>>
    /\ streamGood = TRUE
    /\ restoreOutcome = "none"
    /\ spc = "idle"

TimingIdle ==
    /\ csStart = 0
    /\ csLength = 0
    /\ trialTime = 0

TrialIdle ==
    /\ sim_vis_mode = "NO_VIS"
    /\ homeoTuningTrials = 0
    /\ granuleActDetectTrials = 0
    /\ numTrainingTrials = 0
    /\ in_run = FALSE
    /\ sim_is_paused = FALSE
    /\ trial = 0
    /\ tts = 0
    /\ rpc = "idle"
    /\ kernel = "zeros"
    /\ gtk_events = <<>>
    /\ userBudget = 0
    /\ tsRun = <<>>
    /\ cancelTrial = -1
    /\ cancelTs = -1

\* before initialize_spike_sums: nothing allocated
TrackerUninit ==
    /\ spike_sums_initialized = FALSE
    /\ spike_sums = [t \in CellTypes |->
                        [num_cells            |-> 0,
                         non_cs_spike_sum     |-> 0,
                         cs_spike_sum         |-> 0,
                         non_cs_spike_counter |-> <<>>,
                         cs_spike_counter     |-> <<>>]]
    /\ cell_spikes = [t \in CellTypes |-> <<>>]
    /\ firing_rates = [t \in CellTypes |->
                          [non_cs_median_fr |-> FZero, cs_median_fr |-> FZero,
                           non_cs_mean_fr |-> FZero, cs_mean_fr |-> FZero]]
    /\ lastOp = "none"
    /\ lastTts = 0
    /\ untouched = FALSE
    /\ ncalls = 0

(***************************************************************************)
(* Setup and persistence (control.cpp)                                     *)
(***************************************************************************)
SimFileNames == {"sim", "state"}

RasterFileNames == {"raster"}

FileNames == SimFileNames \cup RasterFileNames

NoFile == [exists |-> FALSE, bytes |-> <<>>, layout |-> <<>>]

NoCall == [op |-> "none", file |-> "none", outcome |-> "none"]

\* the Control(sim_vis_mode) constructor: nothing populated, nothing allocated
SetupIdle ==
    /\ con_params_populated = FALSE
    /\ act_params_populated = FALSE
    /\ simCore = FALSE
    /\ mfFreq = FALSE
    /\ mfs = FALSE
    /\ output_arrays_initialized = FALSE
    /\ files = [f \in FileNames |-> NoFile]
    /\ fopen_log = <<>>
    /\ lastCall = NoCall
    /\ errs = {}
    /\ nsetup = 0
    /\ process = "running"
    /\ open_failed = FALSE
    /\ bad_writes = 0

\* write_con_params, write_act_params, read_con_params, read_act_params are
\* not part of the sources at hand: each parameter block is one word (the
\* connectivity block holds the zone count), read back positionally.
write_con_params(stream, nZones) == Append(stream, nZones)

write_act_params(stream) == Append(stream, 0)

read_con_params(stream) == IF stream = <<>> THEN <<>> ELSE Tail(stream)

read_act_params(stream) == IF stream = <<>> THEN <<>> ELSE Tail(stream)

\* CBMSimCore::writeState (not part of the sources at hand): the core holds
\* the CBMState it was built from and writes it
SimCore_writeState(st, stream) == CBMState_writeState(st, stream).bytes

\* the tags of the two parameter blocks in the block logs
ParamBlocks == << <<"conParams", 0>>, <<"actParams", 0>> >>

\* mutant: an existing state does not stop init_sim_state
init_sim_state_Outcome_Replaces(con, act, st) ==
    IF ~con THEN "no_con"
    ELSE IF ~act THEN "no_act"
    ELSE "create"

\* Control::init_sim_state: which of its branches is taken
init_sim_state_Outcome(con, act, st) ==
    IF ~con THEN "no_con"
    ELSE IF ~act THEN "no_act"
    ELSE IF st = Null THEN "create"
    ELSE "exists"

\* mutant: build_sim builds whatever is already there
BuildNeeded_Always(con, act, st) == TRUE

\* the guard of build_sim
BuildNeeded(con, act, st) == ~(con /\ act /\ st # Null)

\* the guard of save_sim_state_to_file and save_sim_to_file
SaveAllowed(con, act, st) == con /\ act /\ st # Null

\* what either save function writes for the state: from simCore if there is
\* one, else from simState
SavedStateBytes(core, st, stream) ==
    IF core THEN SimCore_writeState(st, stream)
    ELSE CBMState_writeState(st, stream).bytes

\* the timing configurations explored: the CS window lies inside the trial
TimingConfig ==
    /\ csStart \in 0..MaxCsStart
    /\ csLength \in 1..MaxCsLength
    /\ trialTime = csStart + csLength + PostCs

(***************************************************************************)
(* SpecCBMState: a state is generated, serialised, the stream possibly     *)
(* cut short, and a state restored from it (and re-read in place).         *)
(***************************************************************************)
InitCBMState ==
    /\ numZones \in 1..MaxZones
    /\ draws \in [1..(1 + 2 * MaxZones) -> 0..MaxSeed]
    /\ simState = Null
    /\ sim_file_buf = <<>>
    /\ wlog = <<>>
    /\ restored = Null
    /\ rlog = <<>>
    /\ streamGood = TRUE
    /\ restoreOutcome = "none"
    /\ spc = "new"
    /\ TimingIdle
    /\ TrackerUninit
    /\ TrialIdle
    /\ SetupIdle
    /\ StepIdle

\* simState = new CBMState(numMZones)
Generate ==
    /\ spc = "new"
    /\ simState' = CBMState_Generate(numZones, draws)
    /\ spc' = "built"
    /\ UNCHANGED <<numZones, draws, sim_file_buf, wlog, restored, rlog,
                   streamGood, restoreOutcome>>
    /\ UNCHANGED <<timingVars, trackerVars, trialVars, setupVars, stepVars>>

\* simState->writeState(outfile) on an empty file
WriteState ==
    /\ spc = "built"
    /\ LET w == CBMState_writeState(simState, <<>>)
       IN  /\ sim_file_buf' = w.bytes
           /\ wlog' = w.order
    /\ spc' = "written"
    /\ UNCHANGED <<numZones, draws, simState, restored, rlog, streamGood,
                   restoreOutcome>>
    /\ UNCHANGED <<timingVars, trackerVars, trialVars, setupVars, stepVars>>

\* the file is cut short before it is read back (a corrupt / short stream)
Truncate ==
    /\ spc = "written"
    /\ \E k \in 0..(Len(sim_file_buf) - 1) :
           sim_file_buf' = SubSeq(sim_file_buf, 1, k)
    /\ spc' = "cut"
    /\ UNCHANGED <<numZones, draws, simState, wlog, restored, rlog,
                   streamGood, restoreOutcome>>
    /\ UNCHANGED <<timingVars, trackerVars, trialVars, setupVars, stepVars>>

\* new CBMState(nZones, plast_type, sim_file_buf) with the caller's zone count
Restore ==
    /\ spc \in {"written", "cut"}
    /\ \E nZones \in 1..MaxZones, garbage \in Indeterminate :
           LET r == CBMState_Restore(nZones, sim_file_buf, garbage)
           IN  /\ restored' = r.st
               /\ rlog' = r.order
               /\ streamGood' = r.good
               /\ restoreOutcome' = r.outcome
    /\ spc' = IF spc = "written" THEN "restored" ELSE "restoredCut"
    /\ UNCHANGED <<numZones, draws, simState, sim_file_buf, wlog>>
    /\ UNCHANGED <<timingVars, trackerVars, trialVars, setupVars, stepVars>>

\* restored->readState(infile) with the stream reopened at its start
ReadState ==
    /\ spc \in {"restored", "restoredCut"}
    /\ LET r == CBMState_readState(restored, sim_file_buf)
       IN  /\ restored' = r.st
           /\ rlog' = r.order
           /\ streamGood' = r.good
    /\ spc' = IF spc = "restored" THEN "reread" ELSE "rereadCut"
    /\ UNCHANGED <<numZones, draws, simState, sim_file_buf, wlog,
                   restoreOutcome>>
    /\ UNCHANGED <<timingVars, trackerVars, trialVars, setupVars, stepVars>>

\* CBMState(): an object is default-constructed.  The constructor takes no
\* argument, so it is explored from one configuration of the other inputs.
DefaultConstruct ==
    /\ spc = "new"
    /\ numZones = 1
    /\ \A i \in DOMAIN draws : draws[i] = 0
    /\ \E g \in 0..MaxZones, p \in [PtrNames -> PointerValues] :
           restored' = CBMState_Default(g, p)
    /\ spc' = "default"
    /\ UNCHANGED <<numZones, draws, simState, sim_file_buf, wlog, rlog,
                   streamGood, restoreOutcome>>
    /\ UNCHANGED <<timingVars, trackerVars, trialVars, setupVars, stepVars>>

\* delete on a generated, a restored or a default-constructed object
Destroy ==
    /\ spc \in {"built", "default", "restored"}
    /\ \E o \in CBMState_Destroy(IF spc = "built" THEN simState
                                 ELSE restored) :
           restoreOutcome' = o
    /\ spc' = IF spc = "default" THEN "destroyedDefault" ELSE "destroyed"
    /\ UNCHANGED <<numZones, draws, simState, sim_file_buf, wlog, restored,
                   rlog, streamGood>>
    /\ UNCHANGED <<timingVars, trackerVars, trialVars, setupVars, stepVars>>

NextCBMState ==
    \/ Generate
    \/ WriteState
    \/ Truncate
    \/ Restore
    \/ ReadState
    \/ DefaultConstruct
    \/ Destroy

SpecCBMState == InitCBMState /\ [][NextCBMState]_vars

(***************************************************************************)
(* SpecSpikeSums: the tracker driven by arbitrary calls.                   *)
(***************************************************************************)
InitSpikeSums ==
    /\ StateIdle
    /\ TimingConfig
    /\ TrackerUninit
    /\ TrialIdle
    /\ SetupIdle
    /\ StepIdle

\* initialize_spike_sums(), once (guarded by spike_sums_initialized)
InitializeSpikeSums ==
    /\ ~spike_sums_initialized
    /\ \E sizes \in PopulationSizes :
           spike_sums' = initialize_spike_sums(sizes)
    /\ spike_sums_initialized' = TRUE
    /\ lastOp' = "initialize_spike_sums"
    /\ UNCHANGED <<cell_spikes, firing_rates, lastTts, untouched, ncalls>>
    /\ UNCHANGED <<stateVars, timingVars, trialVars, setupVars, stepVars>>

\* update_spike_sums(tts) for any timestep of the trial; spikes stands for
\* cell_spikes: the 0/1 flags the kernel exports for that timestep
UpdateSpikeSums ==
    /\ spike_sums_initialized
    /\ ncalls < MaxCalls
    /\ \E ts \in 0..(trialTime - 1), spikes \in SpikeVectors(spike_sums) :
           /\ cell_spikes' = spikes
           /\ spike_sums' = update_spike_sums(spike_sums, spikes, ts,
                                              csStart, csLength)
           /\ lastTts' = ts
    /\ lastOp' = "update_spike_sums"
    /\ untouched' = FALSE
    /\ ncalls' = ncalls + 1
    /\ UNCHANGED <<spike_sums_initialized, firing_rates>>
    /\ UNCHANGED <<stateVars, timingVars, trialVars, setupVars, stepVars>>

\* reset_spike_sums()
ResetSpikeSums ==
    /\ spike_sums_initialized
    /\ spike_sums' = reset_spike_sums(spike_sums)
    /\ lastOp' = "reset_spike_sums"
    /\ untouched' = TRUE
    /\ UNCHANGED <<spike_sums_initialized, cell_spikes, firing_rates,
                   lastTts, ncalls>>
    /\ UNCHANGED <<stateVars, timingVars, trialVars, setupVars, stepVars>>

\* calculate_firing_rates()
CalculateFiringRates ==
    /\ spike_sums_initialized
    /\ \E oob \in Indeterminate :
           LET r == calculate_firing_rates(spike_sums, csStart, oob)
           IN  /\ spike_sums' = r.ss
               /\ firing_rates' = r.fr
    /\ lastOp' = "calculate_firing_rates"
    /\ UNCHANGED <<spike_sums_initialized, cell_spikes, lastTts, untouched,
                   ncalls>>
    /\ UNCHANGED <<stateVars, timingVars, trialVars, setupVars, stepVars>>

NextSpikeSums ==
    \/ InitializeSpikeSums
    \/ UpdateSpikeSums
    \/ ResetSpikeSums
    \/ CalculateFiringRates

SpecSpikeSums == InitSpikeSums /\ [][NextSpikeSums]_vars

(***************************************************************************)
(* SpecRunTrials: runTrials from its first statement to its return, with   *)
(* a user who produces GUI events while it runs.                           *)
(***************************************************************************)
TrialCounts ==
    /\ homeoTuningTrials \in 0..MaxTrials
    /\ granuleActDetectTrials \in 0..MaxTrials
    /\ numTrainingTrials \in 0..MaxTrials
    /\ numTotalTrials <= MaxTrials

\* Either no user is present and the timing, the population sizes and the
\* kernel vary, or a user is present and they are fixed at their largest.
\* The population sizes and the kernel vary with the phasic sub-window as
\* long as the CS (the configured case), and are fixed for the other lengths.
InitRunTrials ==
    /\ StateIdle
    /\ SetupIdle
    /\ TrialCounts
    /\ sim_vis_mode \in {"GUI", "NO_VIS"}
    /\ kernel \in {"ones", "zeros"}
    /\ userBudget \in {0, MaxEvents}
    /\ TimingConfig
    /\ csPhasicSize \in 0..(MaxCsLength + 1)
    /\ userBudget > 0 => csPhasicSize = MaxCsLength
    /\ \E sizes \in PopulationSizes :
          /\ spike_sums = initialize_spike_sums(sizes)
          /\ userBudget > 0 =>
                /\ sim_vis_mode = "GUI"
                /\ kernel = "ones"
                /\ csStart = MaxCsStart
                /\ csLength = MaxCsLength
                /\ sizes["MF"] = MaxCells
          /\ csPhasicSize # MaxCsLength =>
                /\ kernel = "ones"
                /\ sizes["MF"] = MaxCells
    /\ num_go = spike_sums["GO"].num_cells
    /\ experiment = <<>>
    /\ calls = <<>>
    /\ usCount = 0
    /\ phaseLog = <<>>
    /\ spike_sums_initialized = TRUE
    /\ cell_spikes = [t \in CellTypes |-> <<>>]
    /\ firing_rates = [t \in CellTypes |->
                          [non_cs_median_fr |-> FZero, cs_median_fr |-> FZero,
                           non_cs_mean_fr |-> FZero, cs_mean_fr |-> FZero]]
    /\ lastOp = "initialize_spike_sums"
    /\ lastTts = 0
    /\ untouched = FALSE
    /\ ncalls = 0
    /\ in_run = FALSE
    /\ sim_is_paused = FALSE
    /\ trial = 0
    /\ tts = 0
    /\ rpc = "idle"
    /\ gtk_events = <<>>
    /\ tsRun = [i \in 1..numTotalTrials |-> 0]
    /\ cancelTrial = -1
    /\ cancelTs = -1

trialConfig == <<sim_vis_mode, homeoTuningTrials, granuleActDetectTrials,
                 numTrainingTrials, kernel>>

\* in_run = true; trial = 0;
RunTrials_Start ==
    /\ rpc = "idle"
    /\ in_run' = TRUE
    /\ trial' = 0
    /\ rpc' = "while"
    /\ UNCHANGED <<sim_is_paused, tts, gtk_events, userBudget, tsRun,
                   cancelTrial, cancelTs, trialConfig>>
    /\ UNCHANGED <<stateVars, timingVars, trackerVars, setupVars, stepVars>>

\* the test of the trial loop, and of "if (trial >= homeoTuningTrials)"
RunTrials_While ==
    /\ rpc = "while"
    /\ IF WhileCondition(trial, numTotalTrials, in_run)
       THEN IF trial >= homeoTuningTrials
            THEN /\ tts' = 0
                 /\ rpc' = IF ForCondition(0, trialTime, in_run)
                           THEN "for" ELSE "trial_end"
            ELSE /\ rpc' = "trial_end"
                 /\ tts' = tts
       ELSE /\ rpc' = "exit"
            /\ tts' = tts
    /\ IF WhileCondition(trial, numTotalTrials, in_run)
       THEN /\ calls' = <<>>
            /\ usCount' = 0
            /\ phaseLog' = <<>>
       ELSE UNCHANGED <<calls, usCount, phaseLog>>
    /\ UNCHANGED <<in_run, sim_is_paused, trial, gtk_events, userBudget,
                   tsRun, cancelTrial, cancelTs, trialConfig>>
    /\ UNCHANGED <<csPhasicSize, num_go, experiment>>
    /\ UNCHANGED <<stateVars, timingVars, trackerVars, setupVars>>

\* one pass of the timestep loop body: the kernel integrates, the tracker
\* is fed when a GUI is attached, and the GUI gets one event dispatched
RunTrials_Timestep ==
    /\ rpc = "for"
    /\ LET spikes == KernelSpikes(kernel, spike_sums)
           gui    == sim_vis_mode = "GUI"
           yield  == gui /\ gtk_events # <<>>
           after  == IF yield
                     THEN HandleEvent(Head(gtk_events), in_run, sim_is_paused)
                     ELSE [in_run |-> in_run, sim_is_paused |-> sim_is_paused]
       IN  /\ IF gui
              THEN /\ spike_sums' = TallyTimestep(spike_sums, spikes, tts,
                                                  csStart, csLength)
                   /\ cell_spikes' = spikes
                   /\ lastOp' = "update_spike_sums"
                   /\ lastTts' = tts
                   /\ untouched' = FALSE
              ELSE UNCHANGED <<spike_sums, cell_spikes, lastOp, lastTts,
                               untouched>>
           /\ gtk_events' = IF yield THEN Tail(gtk_events) ELSE gtk_events
           /\ in_run' = after.in_run
           /\ sim_is_paused' = after.sim_is_paused
           /\ IF in_run /\ ~after.in_run
              THEN cancelTrial' = trial /\ cancelTs' = tts
              ELSE UNCHANGED <<cancelTrial, cancelTs>>
           /\ tsRun' = [tsRun EXCEPT ![trial + 1] = @ + 1]
           /\ calls' = TimestepCalls_runTrials(tts, csStart, csLength,
                                               csPhasicSize, gui, yield)
           /\ usCount' = IF DeliverUS_runTrials(tts, csStart, csLength)
                         THEN usCount + 1 ELSE usCount
           /\ phaseLog' = Append(phaseLog, PhaseOf(tts, csStart, csLength))
           /\ tts' = tts + 1
           /\ rpc' = IF ForCondition(tts + 1, trialTime, after.in_run)
                     THEN "for" ELSE "trial_end"
    /\ UNCHANGED <<trial, userBudget, trialConfig>>
    /\ UNCHANGED <<spike_sums_initialized, firing_rates, ncalls>>
    /\ UNCHANGED <<csPhasicSize, num_go, experiment>>
    /\ UNCHANGED <<stateVars, timingVars, setupVars>>

\* after the timestep loop: with a GUI the rates are computed and either
\* the end-of-trial loop is entered (paused) or the tracker is reset
RunTrials_TrialEnd ==
    /\ rpc = "trial_end"
    /\ IF sim_vis_mode = "GUI"
       THEN \E oob \in Indeterminate :
              LET r == calculate_firing_rates(spike_sums, csStart, oob)
              IN  /\ firing_rates' = r.fr
                  /\ IF sim_is_paused
                     THEN /\ spike_sums' = r.ss
                          /\ lastOp' = "calculate_firing_rates"
                          /\ rpc' = "pause"
                          /\ UNCHANGED <<trial, untouched>>
                     ELSE /\ spike_sums' = reset_spike_sums(r.ss)
                          /\ lastOp' = "reset_spike_sums"
                          /\ untouched' = TRUE
                          /\ trial' = trial + 1
                          /\ rpc' = "while"
       ELSE /\ trial' = trial + 1
            /\ rpc' = "while"
            /\ UNCHANGED <<spike_sums, firing_rates, lastOp, untouched>>
    /\ UNCHANGED <<in_run, sim_is_paused, tts, gtk_events, userBudget, tsRun,
                   cancelTrial, cancelTs, trialConfig>>
    /\ UNCHANGED <<spike_sums_initialized, cell_spikes, lastTts, ncalls>>
    /\ UNCHANGED <<stateVars, timingVars, setupVars, stepVars>>

\* one pass of the end-of-trial loop.  gtk_main_iteration() blocks until an
\* event arrives, so "iterate" needs a pending event.
RunTrials_PauseLoop ==
    /\ rpc = "pause"
    /\ LET st == PauseLoopState(in_run, gtk_events # <<>>, sim_is_paused)
       IN  IF st = "iterate"
           THEN /\ gtk_events # <<>>
                /\ LET after == HandleEvent(Head(gtk_events), in_run,
                                            sim_is_paused)
                   IN  /\ in_run' = after.in_run
                       /\ sim_is_paused' = after.sim_is_paused
                       /\ IF in_run /\ ~after.in_run
                          THEN cancelTrial' = trial /\ cancelTs' = -1
                          ELSE UNCHANGED <<cancelTrial, cancelTs>>
                /\ gtk_events' = Tail(gtk_events)
                /\ UNCHANGED <<trial, rpc, spike_sums, lastOp, untouched>>
           ELSE /\ spike_sums' = reset_spike_sums(spike_sums)
                /\ lastOp' = "reset_spike_sums"
                /\ untouched' = TRUE
                /\ trial' = trial + 1
                /\ rpc' = "while"
                /\ UNCHANGED <<in_run, sim_is_paused, gtk_events,
                               cancelTrial, cancelTs>>
    /\ UNCHANGED <<tts, userBudget, tsRun, trialConfig>>
    /\ UNCHANGED <<spike_sums_initialized, cell_spikes, firing_rates,
                   lastTts, ncalls>>
    /\ UNCHANGED <<stateVars, timingVars, setupVars, stepVars>>

\* after the trial loop: in_run = false; return
RunTrials_Exit ==
    /\ rpc = "exit"
    /\ in_run' = FALSE
    /\ rpc' = "done"
    /\ UNCHANGED <<sim_is_paused, trial, tts, gtk_events, userBudget, tsRun,
                   cancelTrial, cancelTs, trialConfig>>
    /\ UNCHANGED <<stateVars, timingVars, trackerVars, setupVars, stepVars>>

\* the user clicks: an event is queued for the GUI's main loop
UserEvent ==
    /\ rpc \notin {"idle", "done", "x_idle", "x_done"}
    /\ userBudget > 0
    /\ \E e \in GuiEvents : gtk_events' = Append(gtk_events, e)
    /\ userBudget' = userBudget - 1
    /\ UNCHANGED <<in_run, sim_is_paused, trial, tts, rpc, tsRun,
                   cancelTrial, cancelTs, trialConfig>>
    /\ UNCHANGED <<stateVars, timingVars, trackerVars, setupVars, stepVars>>

EngineStep ==
    \/ RunTrials_Start
    \/ RunTrials_While
    \/ RunTrials_Timestep
    \/ RunTrials_TrialEnd
    \/ RunTrials_PauseLoop
    \/ RunTrials_Exit

NextRunTrials == EngineStep \/ UserEvent

SpecRunTrials == InitRunTrials /\ [][NextRunTrials]_vars

\* the engine is the running thread: it takes its next step unless it is
\* blocked in gtk_main_iteration() waiting for an event
FairRunTrials == SpecRunTrials /\ WF_vars(EngineStep)

(***************************************************************************)
(* SpecRunExperiment: runExperiment from its first statement to its        *)
(* return, with a user who produces GUI events while it runs.              *)
(***************************************************************************)
\* the trials an experiment file can hold: the CS window starts the trial
\* or follows a pre-CS period, the US comes at the CS offset or never
TrialKinds ==
    [CSuse : {0, 1}, CSonset : {0, MaxCsStart},
     CSoffset : {MaxCsLength, MaxCsStart + MaxCsLength},
     USuse : {0, 1},
     USonset : {MaxCsLength, MaxCsStart + MaxCsLength,
                MaxCsStart + MaxCsLength + PostCs}]

\* Either no user is present and the trials vary, or a user is present and
\* every trial uses the CS and the US.  The Golgi population has the size
\* countGOSpikes is written for or, for experiments of at most one trial, a
\* smaller one.
InitRunExperiment ==
    /\ StateIdle
    /\ SetupIdle
    /\ TrackerUninit
    /\ csStart = MaxCsStart
    /\ csLength = MaxCsLength
    /\ trialTime = MaxCsStart + MaxCsLength + PostCs
    /\ csPhasicSize = MaxCsLength
    /\ sim_vis_mode \in {"GUI", "NO_VIS"}
    /\ userBudget \in {0, MaxEvents}
    /\ userBudget > 0 => sim_vis_mode = "GUI"
    /\ \E n \in 0..MaxTrials :
          experiment \in [1..n -> {k \in TrialKinds :
                                     /\ k.CSoffset = k.CSonset + MaxCsLength
                                     /\ k.USonset >= k.CSoffset
                                     /\ userBudget > 0 =>
                                           /\ k.CSuse = 1
                                           /\ k.USuse = 1
                                           /\ k.CSonset = MaxCsStart
                                           /\ k.USonset = k.CSoffset}]
    /\ num_go \in {MaxCells, GoSortRange}
    /\ num_go # GoSortRange => (userBudget = 0 /\ Len(experiment) <= 1)
    /\ tsRun = [i \in 1..Len(experiment) |-> 0]
    /\ calls = <<>>
    /\ usCount = 0
    /\ phaseLog = <<>>
    /\ homeoTuningTrials = 0
    /\ granuleActDetectTrials = 0
    /\ numTrainingTrials = 0
    /\ kernel = "zeros"
    /\ in_run = TRUE
    /\ sim_is_paused = FALSE
    /\ trial = 0
    /\ tts = 0
    /\ rpc = "x_idle"
    /\ gtk_events = <<>>
    /\ cancelTrial = -1
    /\ cancelTs = -1

\* the declarations before the trial loop, and int trial = 0
RunExperiment_Start ==
    /\ rpc = "x_idle"
    /\ trial' = 0
    /\ rpc' = "x_for"
    /\ UNCHANGED <<in_run, sim_is_paused, tts, gtk_events, userBudget, tsRun,
                   cancelTrial, cancelTs, trialConfig>>
    /\ UNCHANGED <<stateVars, timingVars, trackerVars, setupVars, stepVars>>

\* the test of the trial loop and the per-trial declarations
RunExperiment_For ==
    /\ rpc = "x_for"
    /\ IF ExperimentForCondition(trial, Len(experiment))
       THEN /\ tts' = 0
            /\ calls' = <<>>
            /\ usCount' = 0
            /\ phaseLog' = <<>>
            /\ rpc' = IF ForCondition(0, trialTime, in_run)
                      THEN "x_ts" ELSE "x_trial_end"
       ELSE /\ rpc' = "x_done"
            /\ UNCHANGED <<tts, calls, usCount, phaseLog>>
    /\ UNCHANGED <<in_run, sim_is_paused, trial, gtk_events, userBudget,
                   tsRun, cancelTrial, cancelTs, trialConfig>>
    /\ UNCHANGED <<csPhasicSize, num_go, experiment>>
    /\ UNCHANGED <<stateVars, timingVars, trackerVars, setupVars>>

\* one pass of the timestep loop body
RunExperiment_Timestep ==
    /\ rpc = "x_ts"
    /\ LET tr    == experiment[trial + 1]
           gui   == sim_vis_mode = "GUI"
           yield == gui /\ gtk_events # <<>>
           after == IF yield
                    THEN HandleEvent(Head(gtk_events), in_run, sim_is_paused)
                    ELSE [in_run |-> in_run, sim_is_paused |-> sim_is_paused]
       IN  /\ calls' = TimestepCalls_runExperiment(tts, tr, gui, yield)
           /\ usCount' = IF DeliverUS_runExperiment(tr.USuse, tts, tr.USonset)
                         THEN usCount + 1 ELSE usCount
           /\ phaseLog' = Append(phaseLog,
                              PhaseOf(tts, tr.CSonset, tr.CSoffset - tr.CSonset))
           /\ gtk_events' = IF yield THEN Tail(gtk_events) ELSE gtk_events
           /\ in_run' = after.in_run
           /\ sim_is_paused' = after.sim_is_paused
           /\ IF in_run /\ ~after.in_run
              THEN cancelTrial' = trial /\ cancelTs' = tts
              ELSE UNCHANGED <<cancelTrial, cancelTs>>
           /\ tsRun' = [tsRun EXCEPT ![trial + 1] = @ + 1]
           /\ tts' = tts + 1
           /\ rpc' = IF ForCondition(tts + 1, trialTime, after.in_run)
                     THEN "x_ts" ELSE "x_trial_end"
    /\ UNCHANGED <<trial, userBudget, trialConfig>>
    /\ UNCHANGED <<csPhasicSize, num_go, experiment>>
    /\ UNCHANGED <<stateVars, timingVars, trackerVars, setupVars>>

\* after the timestep loop: with a GUI and the pause flag set the
\* end-of-trial loop is entered, else trial++
RunExperiment_TrialEnd ==
    /\ rpc = "x_trial_end"
    /\ IF sim_vis_mode = "GUI" /\ sim_is_paused
       THEN /\ rpc' = "x_pause"
            /\ trial' = trial
       ELSE /\ rpc' = "x_for"
            /\ trial' = trial + 1
    /\ UNCHANGED <<in_run, sim_is_paused, tts, gtk_events, userBudget, tsRun,
                   cancelTrial, cancelTs, trialConfig>>
    /\ UNCHANGED <<stateVars, timingVars, trackerVars, setupVars, stepVars>>

\* one pass of the end-of-trial loop, while (true): in_run is not tested.
\* gtk_main_iteration() blocks until an event arrives.
RunExperiment_PauseLoop ==
    /\ rpc = "x_pause"
    /\ IF gtk_events # <<>> \/ sim_is_paused
       THEN /\ gtk_events # <<>>
            /\ LET after == HandleEvent(Head(gtk_events), in_run,
                                        sim_is_paused)
               IN  /\ in_run' = after.in_run
                   /\ sim_is_paused' = after.sim_is_paused
                   /\ IF in_run /\ ~after.in_run
                      THEN cancelTrial' = trial /\ cancelTs' = -1
                      ELSE UNCHANGED <<cancelTrial, cancelTs>>
            /\ gtk_events' = Tail(gtk_events)
            /\ UNCHANGED <<trial, rpc>>
       ELSE /\ trial' = trial + 1
            /\ rpc' = "x_for"
            /\ UNCHANGED <<in_run, sim_is_paused, gtk_events, cancelTrial,
                           cancelTs>>
    /\ UNCHANGED <<tts, userBudget, tsRun, trialConfig>>
    /\ UNCHANGED <<stateVars, timingVars, trackerVars, setupVars, stepVars>>

ExperimentStep ==
    \/ RunExperiment_Start
    \/ RunExperiment_For
    \/ RunExperiment_Timestep
    \/ RunExperiment_TrialEnd
    \/ RunExperiment_PauseLoop

NextRunExperiment == ExperimentStep \/ UserEvent

SpecRunExperiment == InitRunExperiment /\ [][NextRunExperiment]_vars

(***************************************************************************)
(* SpecTrialEngine: either of the two trial loops, from entry to return.   *)
(***************************************************************************)
InitTrialEngine == InitRunTrials \/ InitRunExperiment

NextTrialEngine == NextRunTrials \/ NextRunExperiment

SpecTrialEngine == InitTrialEngine /\ [][NextTrialEngine]_vars

(***************************************************************************)
(* SpecSetup: the setup and save operations of Control called in any       *)
(* order, on a file system that may already hold a saved simulation and a  *)
(* saved state.                                                            *)
(***************************************************************************)
\* the state found in the files that exist before the first call
SavedState == CBMState_Generate(1, <<0, 0, 0>>)

InitSetup ==
    /\ StateIdle
    /\ StepIdle
    /\ TimingIdle
    /\ TrackerUninit
    /\ TrialIdle
    /\ con_params_populated = FALSE
    /\ act_params_populated = FALSE
    /\ simCore = FALSE
    /\ mfFreq = FALSE
    /\ mfs = FALSE
    /\ output_arrays_initialized = FALSE
    /\ \E hasSim \in BOOLEAN, hasState \in BOOLEAN :
           files = [f \in FileNames |->
                      IF f = "sim" /\ hasSim
                      THEN [exists |-> TRUE,
                            bytes  |-> CBMState_writeState(SavedState,
                                           write_act_params(
                                               write_con_params(<<>>, 1))).bytes,
                            layout |-> ParamBlocks \o
                                CBMState_writeState(SavedState, <<>>).order]
                      ELSE IF f = "state" /\ hasState
                      THEN [exists |-> TRUE,
                            bytes  |-> CBMState_writeState(SavedState, <<>>).bytes,
                            layout |-> CBMState_writeState(SavedState, <<>>).order]
                      ELSE NoFile]
    /\ fopen_log = <<>>
    /\ lastCall = NoCall
    /\ errs = {}
    /\ nsetup = 0
    /\ process = "running"
    /\ open_failed = FALSE
    /\ bad_writes = 0

\* bookkeeping of one setup call
Called(op, f, outcome) ==
    /\ process = "running"
    /\ nsetup < MaxSetupCalls
    /\ nsetup' = nsetup + 1
    /\ lastCall' = [op |-> op, file |-> f, outcome |-> outcome]
    /\ errs' = IF outcome \in {"done", "unopened", "exit"} THEN errs
               ELSE errs \cup {<<op, outcome>>}
    /\ process' = IF outcome = "exit" THEN "exited" ELSE process

\* the call makes no fstream for writing
NoOutputStream ==
    /\ open_failed' = FALSE
    /\ bad_writes' = 0

\* the variables of the other groups no setup call touches
SetupFrame ==
    UNCHANGED <<numZones, draws, sim_file_buf, wlog, restored,
                streamGood, restoreOutcome, spc, timingVars, trialVars,
                cell_spikes, firing_rates, lastOp, lastTts, untouched, ncalls,
                stepVars>>

\* populate_con_params(p_file): a connectivity parameter file is loaded
PopulateConParams ==
    /\ Called("populate_con_params", "none", "done")
    /\ con_params_populated' = TRUE
    /\ fopen_log' = <<>>
    /\ UNCHANGED <<act_params_populated, simState, simCore, mfFreq, mfs,
                   output_arrays_initialized, files, spike_sums_initialized,
                   spike_sums>>
    /\ NoOutputStream
    /\ UNCHANGED rlog
    /\ SetupFrame

\* populate_act_params(p_file): an activity parameter file is loaded
PopulateActParams ==
    /\ Called("populate_act_params", "none", "done")
    /\ act_params_populated' = TRUE
    /\ fopen_log' = <<>>
    /\ UNCHANGED <<con_params_populated, simState, simCore, mfFreq, mfs,
                   output_arrays_initialized, files, spike_sums_initialized,
                   spike_sums>>
    /\ NoOutputStream
    /\ UNCHANGED rlog
    /\ SetupFrame

\* Control::build_sim
BuildSim ==
    /\ Called("build_sim", "none", "done")
    /\ IF BuildNeeded(con_params_populated, act_params_populated, simState)
       THEN /\ con_params_populated' = TRUE
            /\ act_params_populated' = TRUE
            /\ \E d \in [1..(1 + 2 * numZones) -> 0..MaxSeed] :
                   simState' = CBMState_Generate(numZones, d)
       ELSE UNCHANGED <<con_params_populated, act_params_populated, simState>>
    /\ fopen_log' = <<>>
    /\ UNCHANGED <<simCore, mfFreq, mfs, output_arrays_initialized, files,
                   spike_sums_initialized, spike_sums>>
    /\ NoOutputStream
    /\ UNCHANGED rlog
    /\ SetupFrame

\* Control::init_sim_state(stateFile)
InitSimState ==
    \E stateFile \in SimFileNames, garbage \in Indeterminate :
        LET o == init_sim_state_Outcome(con_params_populated,
                                        act_params_populated, simState)
        IN  /\ Called("init_sim_state", stateFile,
                      IF o = "create" THEN "done" ELSE o)
            /\ IF o = "create"
               THEN LET r == CBMState_Restore(numZones,
                                 files[stateFile].bytes, garbage)
                    IN  /\ simState' = r.st
                        /\ rlog' = r.order
                        /\ fopen_log' = << <<stateFile, "in">> >>
               ELSE /\ simState' = simState
                    /\ rlog' = rlog
                    /\ fopen_log' = <<>>
            /\ UNCHANGED <<con_params_populated, act_params_populated,
                           simCore, mfFreq, mfs, output_arrays_initialized,
                           files, spike_sums_initialized, spike_sums>>
            /\ NoOutputStream
            /\ SetupFrame

\* Control::init_sim(in_sim_filename)
InitSim ==
    \E in_sim_filename \in SimFileNames, garbage \in Indeterminate :
        LET s0 == files[in_sim_filename].bytes
            s1 == IF ~con_params_populated THEN read_con_params(s0) ELSE s0
            s2 == IF ~act_params_populated THEN read_act_params(s1) ELSE s1
        IN  /\ Called("init_sim", in_sim_filename, "done")
            /\ fopen_log' = << <<in_sim_filename, "in">> >>
            /\ con_params_populated' = TRUE
            /\ act_params_populated' = TRUE
            /\ simState' = IF simState = Null
                           THEN CBMState_Restore(numZones, s2, garbage).st
                           ELSE simState
            /\ rlog' = (IF ~con_params_populated
                        THEN <<ParamBlocks[1]>> ELSE <<>>)
                       \o (IF ~act_params_populated
                           THEN <<ParamBlocks[2]>> ELSE <<>>)
                       \o (IF simState = Null
                           THEN CBMState_Restore(numZones, s2, garbage).order
                           ELSE <<>>)
            /\ simCore' = TRUE
            /\ mfFreq' = TRUE
            /\ mfs' = TRUE
            /\ output_arrays_initialized' = TRUE
            /\ spike_sums' = IF ~spike_sums_initialized
                             THEN initialize_spike_sums(
                                      [t \in CellTypes |-> 1])
                             ELSE spike_sums
            /\ spike_sums_initialized' = TRUE
            /\ UNCHANGED files
            /\ NoOutputStream
            /\ SetupFrame

\* Control::save_sim_state_to_file(outStateFile).  opens: whether the
\* fstream made for outStateFile opens; the function does not test it, and
\* a write on an unopened stream writes nothing.
SaveSimStateToFile ==
    \E outStateFile \in SimFileNames, opens \in BOOLEAN :
        LET ok == SaveAllowed(con_params_populated, act_params_populated,
                              simState)
        IN  /\ Called("save_sim_state_to_file", outStateFile,
                      IF ~ok THEN "uninitialized"
                      ELSE IF opens THEN "done" ELSE "unopened")
            /\ IF ok
               THEN /\ files' = IF opens
                                THEN [files EXCEPT ![outStateFile] =
                                        [exists |-> TRUE,
                                         bytes  |-> SavedStateBytes(simCore,
                                                        simState, <<>>),
                                         layout |-> CBMState_writeState(
                                                        simState, <<>>).order]]
                                ELSE files
                    /\ fopen_log' = << <<outStateFile, "out">> >>
                    /\ open_failed' = ~opens
                    /\ bad_writes' = IF opens THEN 0 ELSE 1
               ELSE /\ files' = files
                    /\ fopen_log' = <<>>
                    /\ NoOutputStream
            /\ UNCHANGED <<con_params_populated, act_params_populated,
                           simState, simCore, mfFreq, mfs,
                           output_arrays_initialized, spike_sums_initialized,
                           spike_sums>>
            /\ UNCHANGED rlog
            /\ SetupFrame

\* Control::save_sim_to_file(outSimFile): three writes on the stream
SaveSimToFile ==
    \E outSimFile \in SimFileNames, opens \in BOOLEAN :
        LET ok == SaveAllowed(con_params_populated, act_params_populated,
                              simState)
        IN  /\ Called("save_sim_to_file", outSimFile,
                      IF ~ok THEN "uninitialized"
                      ELSE IF opens THEN "done" ELSE "unopened")
            /\ IF ok
               THEN /\ files' = IF opens
                                THEN [files EXCEPT ![outSimFile] =
                                        [exists |-> TRUE,
                                         bytes  |-> SavedStateBytes(simCore,
                                                        simState,
                                                        write_act_params(
                                                            write_con_params(
                                                                <<>>, numZones))),
                                         layout |-> ParamBlocks \o
                                             CBMState_writeState(
                                                 simState, <<>>).order]]
                                ELSE files
                    /\ fopen_log' = << <<outSimFile, "out">> >>
                    /\ open_failed' = ~opens
                    /\ bad_writes' = IF opens THEN 0 ELSE 3
               ELSE /\ files' = files
                    /\ fopen_log' = <<>>
                    /\ NoOutputStream
            /\ UNCHANGED <<con_params_populated, act_params_populated,
                           simState, simCore, mfFreq, mfs,
                           output_arrays_initialized, spike_sums_initialized,
                           spike_sums>>
            /\ UNCHANGED rlog
            /\ SetupFrame

\* Control::write2DCharArray(outFileName, inArr, numRow, numCol), called
\* by saveOutputArraysToFile on an allocated raster: exit(-1) when the
\* stream is not open, else the raster's bytes are written raw.
Write2DCharArray ==
    \E outFileName \in RasterFileNames, opens \in BOOLEAN :
        /\ output_arrays_initialized
        /\ Called("write2DCharArray", outFileName,
                  IF opens THEN "done" ELSE "exit")
        /\ files' = IF opens
                    THEN [files EXCEPT ![outFileName] =
                            [exists |-> TRUE, bytes |-> Zeros(1),
                             layout |-> << <<"raster", 0>> >>]]
                    ELSE files
        /\ fopen_log' = << <<outFileName, "out">> >>
        /\ open_failed' = ~opens
        /\ bad_writes' = 0
        /\ UNCHANGED <<con_params_populated, act_params_populated,
                       simState, simCore, mfFreq, mfs,
                       output_arrays_initialized, spike_sums_initialized,
                       spike_sums>>
        /\ UNCHANGED rlog
        /\ SetupFrame

NextSetup ==
    \/ PopulateConParams
    \/ PopulateActParams
    \/ BuildSim
    \/ InitSimState
    \/ InitSim
    \/ SaveSimStateToFile
    \/ SaveSimToFile
    \/ Write2DCharArray

SpecSetup == InitSetup /\ [][NextSetup]_vars

(***************************************************************************)
(* Properties of CBMState (SpecCBMState)                                   *)
(***************************************************************************)
SerialisationOrder(n) ==
    [k \in 1..(2 + 2 * n) |->
        IF k = 1 THEN <<"innetCon", 0>>
        ELSE IF k = 2 THEN <<"innetAct", 0>>
        ELSE IF k % 2 = 1 THEN <<"mzoneCon", (k - 3) \div 2>>
        ELSE <<"mzoneAct", (k - 4) \div 2>>]

HasWritten == spc \in {"written", "cut", "restored", "restoredCut",
                       "reread", "rereadCut"}
HasRead == spc \in {"restored", "restoredCut", "reread", "rereadCut"}

\* C1: writeState emits input-network connectivity, input-network activity,
\* then per zone in index order connectivity followed by activity; the
\* restoring constructor and readState consume the sub-states in exactly
\* that order (the same sequence when the zone counts agree).
C1_WriteOrderIsReadOrder ==
    /\ HasWritten => wlog = SerialisationOrder(numZones)
    /\ HasRead => rlog = SerialisationOrder(getNumZones(restored))
    /\ (HasRead /\ getNumZones(restored) = numZones) => rlog = wlog

C1_Witness ==
    /\ spc = "reread"
    /\ getNumZones(restored) = numZones
    /\ numZones >= 2
    /\ rlog = wlog
    /\ Len(wlog) = 2 + 2 * numZones

\* C2: round trip: a state restored with zone count Z from the stream
\* written by a generated state of Z zones equals that state in every
\* sub-state: input-network connectivity and activity, and each zone's
\* connectivity and activity at the same index.
C2_RoundTrip ==
    (spc \in {"restored", "reread"} /\ getNumZones(restored) = numZones) =>
        /\ restored.innetConState = simState.innetConState
        /\ restored.innetActState = simState.innetActState
        /\ Len(restored.mzoneConStates) = numZones
        /\ Len(restored.mzoneActStates) = numZones
        /\ \A z \in 1..numZones :
              /\ restored.mzoneConStates[z] = simState.mzoneConStates[z]
              /\ restored.mzoneActStates[z] = simState.mzoneActStates[z]

C2_Witness ==
    /\ spc = "restored"
    /\ getNumZones(restored) = numZones
    /\ numZones >= 2
    /\ restored = simState
    /\ simState.mzoneConStates[1] # simState.mzoneConStates[2]
    /\ simState.mzoneActStates[1] # simState.mzoneActStates[2]

\* C9: restoring from a stream that is exhausted before every field has
\* been read fails with a CorruptState condition instead of returning a
\* constructed state.
C9_ShortStreamIsCorruptState ==
    (spc \in {"restored", "restoredCut"} /\ ~streamGood) =>
        restoreOutcome = "CorruptState"

CsTallies(ss) ==
    [t \in CellTypes |-> <<ss[t].cs_spike_sum, ss[t].cs_spike_counter>>]
NonCsTallies(ss) ==
    [t \in CellTypes |-> <<ss[t].non_cs_spike_sum, ss[t].non_cs_spike_counter>>]
\* ss with the spikes added to the tallies selected by cs (TRUE: the CS ones)
Tallied(ss, spikes, cs) ==
    [t \in CellTypes |->
        IF cs THEN <<ss[t].cs_spike_sum + SumSeq(spikes[t]),
                     [j \in 1..ss[t].num_cells |->
                         ss[t].cs_spike_counter[j] + spikes[t][j]]>>
              ELSE <<ss[t].non_cs_spike_sum + SumSeq(spikes[t]),
                     [j \in 1..ss[t].num_cells |->
                         ss[t].non_cs_spike_counter[j] + spikes[t][j]]>>]

\* C4: phase partition: an update_spike_sums call for a timestep before
\* csStart adds the spikes to the non-CS sum and counters and leaves the CS
\* ones alone; a call for a timestep in [csStart, csStart+csLength) adds them
\* to the CS sum and counters and leaves the non-CS ones alone; a call for a
\* later timestep changes neither.
C4_PhasePartition ==
    [][ncalls' = ncalls + 1 =>
          /\ lastTts' < csStart =>
                /\ CsTallies(spike_sums') = CsTallies(spike_sums)
                /\ NonCsTallies(spike_sums') =
                       Tallied(spike_sums, cell_spikes', FALSE)
          /\ (lastTts' >= csStart /\ lastTts' < csStart + csLength) =>
                /\ NonCsTallies(spike_sums') = NonCsTallies(spike_sums)
                /\ CsTallies(spike_sums') =
                       Tallied(spike_sums, cell_spikes', TRUE)
          /\ lastTts' >= csStart + csLength =>
                /\ CsTallies(spike_sums') = CsTallies(spike_sums)
                /\ NonCsTallies(spike_sums') = NonCsTallies(spike_sums)
       ]_vars

C4_Witness ==
    /\ lastOp = "update_spike_sums"
    /\ lastTts >= csStart + csLength
    /\ \A t \in CellTypes :
          /\ SumSeq(cell_spikes[t]) = spike_sums[t].num_cells
          /\ spike_sums[t].cs_spike_sum = 0
          /\ spike_sums[t].non_cs_spike_sum = 0

IsZeroRate(r) == r.kind = "num" /\ r.num = 0

\* C7: reset idempotence: calculate_firing_rates on a tracker that was reset
\* and not updated since yields cs and non-cs mean and median rates that are
\* all zero, for every cell type and every configured csStart.
C7_ResetThenRatesZero ==
    (lastOp = "calculate_firing_rates" /\ untouched) =>
        \A t \in CellTypes :
            /\ IsZeroRate(firing_rates[t].cs_mean_fr)
            /\ IsZeroRate(firing_rates[t].cs_median_fr)
            /\ IsZeroRate(firing_rates[t].non_cs_mean_fr)
            /\ IsZeroRate(firing_rates[t].non_cs_median_fr)

(***************************************************************************)
(* Properties of setup and persistence (SpecSetup)                         *)
(***************************************************************************)
\* C11: every operation that writes an output file treats a failure to open
\* it as fatal: in a call whose output stream did not open the process
\* exits and no write on the unopened stream is attempted.
C11_OpenFailureIsFatal ==
    [][(nsetup' = nsetup + 1 /\ open_failed')
          => (process' = "exited" /\ bad_writes' = 0)]_vars

IsPrefix(r, l) == Len(r) <= Len(l) /\ \A k \in 1..Len(r) : r[k] = l[k]

\* C12: a file written by save_sim_to_file holds the connectivity
\* parameters, the activity parameters, then the state blocks; init_sim
\* reads its blocks in that order from such a file: the k-th block it reads
\* is the k-th block of the file, the connectivity parameters first.
C12_SimFileOrder ==
    [][ /\ (nsetup' = nsetup + 1 /\ lastCall'.op = "save_sim_to_file"
              /\ lastCall'.outcome = "done")
           => files'[lastCall'.file].layout =
                  ParamBlocks \o SerialisationOrder(numZones)
        /\ (nsetup' = nsetup + 1 /\ lastCall'.op = "init_sim"
              /\ files[lastCall'.file].layout =
                     ParamBlocks \o SerialisationOrder(numZones))
           => IsPrefix(rlog', files[lastCall'.file].layout)
      ]_vars

\* the step is one call of op
SetupCallOf(op) == nsetup' = nsetup + 1 /\ lastCall'.op = op

\* the call returned early: no state created or replaced, no file opened or
\* written, no engine flag changed
AbortedWithNoEffect ==
    /\ lastCall'.outcome # "done"
    /\ simState' = simState
    /\ files' = files
    /\ fopen_log' = <<>>
    /\ UNCHANGED <<con_params_populated, act_params_populated, simCore,
                   mfFreq, mfs, output_arrays_initialized,
                   spike_sums_initialized, in_run, sim_is_paused>>

SetupComplete ==
    con_params_populated /\ act_params_populated /\ simState # Null

\* C10: sequencing errors abort with no effect: init_sim_state called while
\* the connectivity or the activity parameters are not populated, or while a
\* state exists, and either save function called while the parameters or
\* the state are missing, return early with nothing created, replaced,
\* opened or written and every flag unchanged; called when setup is in
\* order, init_sim_state creates the state from the file it opens and the
\* save functions write the state to the file named.
C10_SequencingErrorsAbort ==
    [][ /\ (SetupCallOf("init_sim_state") /\
              ~(con_params_populated /\ act_params_populated /\ simState = Null))
           => AbortedWithNoEffect
        /\ ((SetupCallOf("save_sim_state_to_file") \/ SetupCallOf("save_sim_to_file"))
              /\ ~SetupComplete)
           => AbortedWithNoEffect
        /\ (SetupCallOf("init_sim_state") /\
              con_params_populated /\ act_params_populated /\ simState = Null)
           => /\ lastCall'.outcome = "done"
              /\ simState' # Null
              /\ fopen_log' = << <<lastCall'.file, "in">> >>
        /\ (SetupCallOf("save_sim_state_to_file") /\ SetupComplete
              /\ ~open_failed')
           => /\ lastCall'.outcome = "done"
              /\ fopen_log' = << <<lastCall'.file, "out">> >>
              /\ files'[lastCall'.file] =
                     [exists |-> TRUE,
                      bytes  |-> CBMState_writeState(simState, <<>>).bytes,
                      layout |-> CBMState_writeState(simState, <<>>).order]
        /\ (SetupCallOf("save_sim_to_file") /\ SetupComplete
              /\ ~open_failed')
           => /\ lastCall'.outcome = "done"
              /\ fopen_log' = << <<lastCall'.file, "out">> >>
              /\ files'[lastCall'.file] =
                     [exists |-> TRUE,
                      bytes  |-> CBMState_writeState(simState,
                                     <<numZones, 0>>).bytes,
                      layout |-> ParamBlocks \o
                                 CBMState_writeState(simState, <<>>).order]
      ]_vars

C10_Witness ==
    /\ <<"init_sim_state", "no_con">> \in errs
    /\ <<"save_sim_to_file", "uninitialized">> \in errs
    /\ <<"init_sim_state", "exists">> \in errs
    /\ lastCall.op = "save_sim_to_file"
    /\ lastCall.outcome = "done"
    /\ files[lastCall.file].exists
    /\ files[lastCall.file].bytes =
           CBMState_writeState(simState, <<numZones, 0>>).bytes

(***************************************************************************)
(* Properties of the trial engine (SpecRunTrials, FairRunTrials)           *)
(***************************************************************************)
\* C5: cancellation granularity: once in_run has been cleared in trial t
\* (during timestep k, or in the end-of-trial loop), no timestep of a later
\* trial is executed; and when it was cleared during timestep k, the
\* remaining timesteps of trial t are still executed, so that trial t has
\* run all trialTime timesteps whenever the engine is outside its timestep
\* loop.
C5_CancellationGranularity ==
    cancelTrial >= 0 =>
        /\ \A i \in 1..numTotalTrials : i > cancelTrial + 1 => tsRun[i] = 0
        /\ (cancelTs >= 0 /\ rpc # "for") => tsRun[cancelTrial + 1] = trialTime

C5_Witness ==
    /\ rpc = "done"
    /\ cancelTs >= 0
    /\ cancelTs + 1 < trialTime
    /\ cancelTrial + 1 < numTotalTrials
    /\ tsRun[cancelTrial + 1] = trialTime
    /\ tsRun[cancelTrial + 2] = 0

\* a pause that is neither cleared nor overtaken by cancellation
PausePending == rpc = "pause" /\ sim_is_paused /\ in_run

\* C6: termination: provided every end-of-trial pause is eventually cleared
\* or the run cancelled, runTrials eventually returns; and when its trial
\* loop is left, the trial index equals the configured total or in_run has
\* been cleared.
C6_Termination ==
    /\ (PausePending ~> ~PausePending) => <>(rpc = "done")
    /\ [](rpc = "exit" => (trial = numTotalTrials \/ ~in_run))

C6_Witness ==
    /\ rpc = "done"
    /\ cancelTrial >= 0
    /\ cancelTs = -1
    /\ trial < numTotalTrials

\* C14: absent cancellation, runTrials performs exactly homeoTuningTrials +
\* granuleActDetectTrials + numTrainingTrials trial iterations: the trial
\* index starts at 0, goes up by one per iteration, and equals that total
\* when the loop is left.
C14_TrialCount ==
    /\ [][trial' # trial => trial' = trial + 1]_vars
    /\ [](rpc = "while" => trial <= numTotalTrials)
    /\ []((rpc \in {"exit", "done"} /\ cancelTrial = -1)
             => trial = homeoTuningTrials + granuleActDetectTrials
                            + numTrainingTrials)

C14_Witness ==
    /\ rpc = "done"
    /\ cancelTrial = -1
    /\ homeoTuningTrials >= 1
    /\ numTrainingTrials >= 1
    /\ trial = homeoTuningTrials + granuleActDetectTrials + numTrainingTrials
    /\ tsRun[trial] = trialTime

AllSpikedSums ==
    \A t \in CellTypes :
        /\ spike_sums[t].non_cs_spike_sum = spike_sums[t].num_cells * csStart
        /\ spike_sums[t].cs_spike_sum = spike_sums[t].num_cells * csLength

NoSpikeSums ==
    \A t \in CellTypes :
        /\ spike_sums[t].non_cs_spike_sum = 0
        /\ spike_sums[t].cs_spike_sum = 0

C13_TrialsInOrder ==
    /\ [][trial' # trial =>
             /\ trial' = trial + 1
             /\ tsRun[trial + 1] = trialTime]_vars
    /\ [](\A i \in 1..Len(experiment) :
             tsRun[i] = IF i <= trial THEN trialTime
                        ELSE IF i = trial + 1
                                /\ rpc \in {"x_ts", "x_trial_end", "x_pause"}
                             THEN tts
                             ELSE 0)
    /\ [](rpc = "x_done" => trial = Len(experiment))

\* an experiment of MaxTrials trials has returned, every trial having run
\* all its timesteps although the user pressed stop during the run
C13_Witness ==
    /\ rpc = "x_done"
    /\ Len(experiment) = MaxTrials
    /\ cancelTrial = 0
    /\ ~in_run
    /\ \A i \in 1..Len(experiment) : tsRun[i] = trialTime

(***************************************************************************)
(* C15: after any CBMState constructor returns, the four owned             *)
(* collections are all present, both zone sequences holding numZones       *)
(* entries and every word of every block defined, or all absent; and       *)
(* destroying the object frees it.                                         *)
(***************************************************************************)
AllPresent(obj) ==
    /\ IsConstructed(obj)
    /\ Len(obj.mzoneConStates) = obj.numZones
    /\ Len(obj.mzoneActStates) = obj.numZones

AllAbsent(obj) ==
    /\ ~IsConstructed(obj)
    /\ \A k \in PtrNames : obj.ptrs[k] = "nullptr"

C15_AllPresentOrAllAbsent ==
    /\ spc = "built" => AllPresent(simState)
    /\ spc \in {"restored", "restoredCut"} =>
           AllPresent(restored) /\ streamGood
    /\ spc = "default" => AllAbsent(restored)
    /\ spc \in {"destroyed", "destroyedDefault"} => restoreOutcome = "freed"

(***************************************************************************)
(* C16: across any sequence of setup operations on one engine the          *)
(* simulation state is created at most once: once a state exists, no       *)
(* later call replaces it.                                                 *)
(***************************************************************************)
C16_StateCreatedOnce == [][simState # Null => simState' = simState]_vars

\* a state exists and, while it existed, init_sim_state reported it,
\* init_sim read nothing from its file, and build_sim was the last call
C16_Witness ==
    /\ simState # Null
    /\ <<"init_sim_state", "exists">> \in errs
    /\ simCore
    /\ rlog = <<>>
    /\ lastCall.op = "build_sim"

(***************************************************************************)
(* Properties of the timestep body of the two trial loops                  *)
(* (SpecTrialEngine).  A step that changes tsRun is one pass of a          *)
(* timestep loop body; calls' is then the log of the calls it made.        *)
(***************************************************************************)
\* the arguments of the calls of one name in a call log, in order
RECURSIVE ArgsOf(_, _)
ArgsOf(name, log) ==
    IF log = <<>> THEN <<>>
    ELSE (IF Head(log)[1] = name THEN <<Head(log)[2]>> ELSE <<>>)
         \o ArgsOf(name, Tail(log))

\* the trial loop a state belongs to
InRunExperiment == rpc \in {"x_idle", "x_for", "x_ts", "x_trial_end",
                            "x_pause", "x_done"}

\* the CS window of the trial in progress: start and length
WindowStart == IF InRunExperiment THEN experiment[trial + 1].CSonset
               ELSE csStart

WindowLength == IF InRunExperiment
                THEN experiment[trial + 1].CSoffset
                     - experiment[trial + 1].CSonset
                ELSE csLength

InWindow == tts >= WindowStart /\ tts < WindowStart + WindowLength

\* the source by phase: background outside the CS window, phasic in its
\* first csPhasicSize timesteps, tonic in the rest of it
SourceByPhase ==
    IF ~InWindow THEN "MFBG"
    ELSE IF tts < WindowStart + csPhasicSize THEN "MFFreqInCSPhasic"
    ELSE "MFInCSTonicA"

\* C17 as stated: in every timestep of a trial of either trial loop exactly
\* one mossy-fiber source is sampled, chosen by phase: background iff ts is
\* outside the CS window, phasic iff inside it and ts < csStart +
\* csPhasicSize, tonic iff inside it and ts >= csStart + csPhasicSize.
C17_Original ==
    [][tsRun' # tsRun =>
          ArgsOf("calcPoissActivity", calls') = <<SourceByPhase>>]_vars

\* C17 (amended): in every timestep exactly one mossy-fiber source is
\* sampled.  In runTrials it is chosen by phase as stated.  In runExperiment
\* it is the tonic source iff ts is inside the trial's CS window and the
\* trial uses the CS, the background source otherwise, and never the phasic
\* source.
C17_SourceByPhase ==
    [][tsRun' # tsRun =>
          ArgsOf("calcPoissActivity", calls') =
              <<IF InRunExperiment
                THEN (IF InWindow /\ experiment[trial + 1].CSuse # 0
                      THEN "MFInCSTonicA" ELSE "MFBG")
                ELSE SourceByPhase>>]_vars

\* runTrials has just run a CS timestep beyond a phasic sub-window shorter
\* than the CS window, sampling the tonic source
C17_Witness ==
    /\ rpc \in {"for", "trial_end"}
    /\ csPhasicSize < csLength
    /\ tts - 1 >= csStart + csPhasicSize
    /\ tts - 1 < csStart + csLength
    /\ ArgsOf("calcPoissActivity", calls) = <<"MFInCSTonicA">>

\* whether the trial in progress delivers a US, and at which timestep:
\* runExperiment takes both from the trial, runTrials always delivers one
\* at the end of the CS window
USEnabled == IF InRunExperiment THEN experiment[trial + 1].USuse # 0
             ELSE TRUE

USOnset == IF InRunExperiment THEN experiment[trial + 1].USonset
           ELSE csStart + csLength

\* C18: in every trial updateErrDrive is called in timestep ts if and only
\* if the US is enabled for the trial and ts is the trial's US onset, and
\* then once; so it is called at most once in a trial and never in a trial
\* with the US disabled.
C18_ErrDriveAtUSOnset ==
    /\ [][tsRun' # tsRun =>
             Len(ArgsOf("updateErrDrive", calls')) =
                 IF USEnabled /\ tts = USOnset THEN 1 ELSE 0]_vars
    /\ [](usCount <= 1)
    /\ []((rpc \in {"x_ts", "x_trial_end", "x_pause"} /\ ~USEnabled) =>
             usCount = 0)
    /\ []((rpc \in {"trial_end", "x_trial_end"} /\ tts = trialTime)
             => usCount = IF USEnabled /\ USOnset < trialTime THEN 1 ELSE 0)

\* a trial of an experiment that uses the US has run all its timesteps and
\* the US was delivered once
C18_Witness ==
    /\ rpc = "x_trial_end"
    /\ experiment[trial + 1].USuse = 1
    /\ experiment[trial + 1].USonset < trialTime
    /\ usCount = 1
    /\ trial = 1
    /\ experiment[1].USuse = 0

\* the names of the calls of a log that lie in a set, in order
RECURSIVE NamesIn(_, _)
NamesIn(names, log) ==
    IF log = <<>> THEN <<>>
    ELSE (IF Head(log)[1] \in names THEN <<Head(log)[1]>> ELSE <<>>)
         \o NamesIn(names, Tail(log))

\* the positions in a log of the calls whose names lie in a set
PositionsOf(names, log) == {i \in DOMAIN log : log[i][1] \in names}

KernelCalls == {"updateErrDrive", "calcPoissActivity", "updateTrueMFs",
                "updateMFInput", "calcActivity"}

StatisticsCalls == {"update_spike_sums", "exportgSum_MFGO",
                    "exportgSum_GRGO", "exportAPGO", "countGOSpikes"}

YieldCalls == {"gtk_events_pending", "gtk_main_iteration"}

\* C19: within every executed timestep the kernel calls are, in order, an
\* optional updateErrDrive, the sampling of the stimulus activity,
\* updateTrueMFs, updateMFInput and exactly one calcActivity; the spike
\* statistics and the CS-window exports come after calcActivity, and the
\* yield to the front end comes after every other call.
C19_TimestepCallOrder ==
    [][tsRun' # tsRun =>
          /\ NamesIn(KernelCalls, calls') \in
                 { <<"calcPoissActivity", "updateTrueMFs", "updateMFInput",
                     "calcActivity">>,
                   <<"updateErrDrive", "calcPoissActivity", "updateTrueMFs",
                     "updateMFInput", "calcActivity">> }
          /\ \A i \in PositionsOf(StatisticsCalls, calls'),
                j \in PositionsOf({"calcActivity"}, calls') : j < i
          /\ \A i \in PositionsOf(YieldCalls, calls'),
                j \in DOMAIN calls' \ PositionsOf(YieldCalls, calls') : j < i
       ]_vars

\* runTrials has just run a CS timestep with a GUI attached and an event
\* pending: spike sums, exports and the yield were all made
C19_Witness ==
    /\ rpc \in {"for", "trial_end"}
    /\ NamesIn(StatisticsCalls \cup YieldCalls, calls) =
           <<"update_spike_sums", "exportgSum_MFGO", "exportgSum_GRGO",
             "exportAPGO", "gtk_events_pending", "gtk_main_iteration">>

(***************************************************************************)
(* Phases of a trial of runTrials (SpecRunTrials)                          *)
(***************************************************************************)
\* the phases of the timesteps of a whole trial: csStart of Pre-CS, then
\* csLength of CS, then the rest of Post-CS
PhasesInOrder ==
    [i \in 1..trialTime |->
        IF i <= csStart THEN "PreCS"
        ELSE IF i <= csStart + csLength THEN "CS"
        ELSE "PostCS"]

\* the timestep index advances from 0 in steps of one, each timestep being
\* logged with its phase
TimestepsAdvanceByOne ==
    [][tsRun' # tsRun => tts' = tts + 1 /\ Len(phaseLog') = tts']_vars

AtTrialEnd == rpc \in {"trial_end", "x_trial_end"}

InPauseLoop == rpc \in {"pause", "x_pause"}

\* C21: with a GUI attached, when the pause flag is set at the end of a
\* trial the engine enters the end-of-trial loop; while the flag stays set
\* and the run is not cancelled no timestep runs and the trial index does
\* not move; the loop is left only with the flag clear or the run
\* cancelled; and the first timestep of a later trial starts with the flag
\* clear or the run cancelled.  In runTrials and in runExperiment.
C21_PauseHoldsNextTrial ==
    /\ [][(AtTrialEnd /\ sim_vis_mode = "GUI" /\ sim_is_paused
             /\ rpc' # rpc) =>
                (rpc' \in {"pause", "x_pause"} /\ trial' = trial)]_vars
    /\ [][(InPauseLoop /\ sim_is_paused' /\ in_run') =>
                (tsRun' = tsRun /\ trial' = trial
                 /\ rpc' \in {"pause", "x_pause"})]_vars
    /\ [][(InPauseLoop /\ rpc' \notin {"pause", "x_pause"}) =>
                (~sim_is_paused \/ ~in_run)]_vars
    /\ [][(tsRun' # tsRun /\ tts = 0 /\ trial >= 1
             /\ sim_vis_mode = "GUI") =>
                (~sim_is_paused \/ ~in_run)]_vars

\* runTrials waits in its end-of-trial loop, paused and not cancelled, no
\* event pending, with a trial still to run
C21_Witness ==
    /\ rpc = "pause"
    /\ sim_is_paused
    /\ in_run
    /\ gtk_events = <<>>
    /\ trial + 1 < numTotalTrials
    /\ tsRun[trial + 1] = trialTime
    /\ tsRun[trial + 2] = 0

(***************************************************************************)
(* The tracker across the trials of runTrials (SpecRunTrials)              *)
(***************************************************************************)
AllTalliesZero ==
    \A t \in CellTypes :
        /\ spike_sums[t].cs_spike_sum = 0
        /\ spike_sums[t].non_cs_spike_sum = 0
        /\ spike_sums[t].cs_spike_counter = Zeros(spike_sums[t].num_cells)
        /\ spike_sums[t].non_cs_spike_counter =
               Zeros(spike_sums[t].num_cells)

\* C22: at the first timestep of every trial of runTrials the CS and
\* non-CS spike sums and all per-cell counters of every cell type are zero:
\* the tallies of one trial do not carry over into the next.
C22_TalliesZeroAtTrialStart ==
    (rpc = "for" /\ tts = 0) => AllTalliesZero

\* a trial is about to run its first timestep after a trial in which a GUI
\* tallied the spikes of an all-spiking kernel
C22_Witness ==
    /\ rpc = "for"
    /\ tts = 0
    /\ trial >= 1
    /\ tsRun[trial] = trialTime
    /\ sim_vis_mode = "GUI"
    /\ kernel = "ones"
    /\ AllTalliesZero

(***************************************************************************)
(* C23: the generative constructor draws exactly 1 + 2 * numZones seeds    *)
(* from one generator stream: the input-network connectivity seed first,   *)
(* then for each zone z in index order its connectivity seed and its       *)
(* activity seed; zone z's connectivity and activity states are built      *)
(* from draws 2z + 2 and 2z + 3.                                           *)
(***************************************************************************)
RECURSIVE ZoneDraws(_, _)
ZoneDraws(z, nZones) ==
    IF z >= nZones THEN <<>>
    ELSE << <<"mzoneCon", z, 2 * z + 2>>, <<"mzoneAct", z, 2 * z + 3>> >>
         \o ZoneDraws(z + 1, nZones)

C23_SeedDrawOrder ==
    spc = "built" =>
        LET g == CBMState_GenerateTrace(numZones, draws)
        IN  /\ g.drawn = 1 + 2 * numZones
            /\ g.use = << <<"innetCon", 0, 1>> >> \o ZoneDraws(0, numZones)
            /\ simState.innetConState = GenSubState("innetCon", draws[1])
            /\ \A z \in 0..(numZones - 1) :
                  /\ simState.mzoneConStates[z + 1] =
                         GenSubState("mzoneCon", draws[2 * z + 2])
                  /\ simState.mzoneActStates[z + 1] =
                         GenSubState("mzoneAct", draws[2 * z + 3])

\* a state of MaxZones zones was generated from draws in which neighbouring
\* seeds differ
C23_Witness ==
    /\ spc = "built"
    /\ numZones = MaxZones
    /\ \A k \in 1..(2 * numZones) : draws[k] # draws[k + 1]

(***************************************************************************)
(* Properties of calculate_firing_rates (SpecSpikeSums)                    *)
(***************************************************************************)
\* C24: every per-cell counter index calculate_firing_rates reads
\* (num_cells / 2 - 1 and num_cells / 2) lies within [0, num_cells), for
\* every cell type and every population size num_cells >= 1.
C24_MedianReadsInBounds ==
    lastOp = "calculate_firing_rates" =>
        \A t \in CellTypes :
            spike_sums[t].num_cells >= 1 =>
                \A k \in 1..2 :
                    /\ MedianIndices(spike_sums[t].num_cells)[k] >= 0
                    /\ MedianIndices(spike_sums[t].num_cells)[k]
                           < spike_sums[t].num_cells

\* the float f is the exact quotient n / d (a division by zero is not a
\* finite value)
IsQuotient(f, n, d) ==
    IF d = 0 THEN f.kind # "num"
    ELSE f.kind = "num" /\ f.num * d = n * f.den

\* C25: calculate_firing_rates divides the CS sum by the configured CS
\* window duration, csLength timesteps in seconds, times num_cells, and the
\* non-CS sum by the pre-CS duration over which non-CS spikes are tallied,
\* csStart timesteps in seconds, times num_cells (a timestep is 1 ms):
\* cs_mean_fr = cs_spike_sum / (csLength / 1000 * num_cells) and
\* non_cs_mean_fr = non_cs_spike_sum / (csStart / 1000 * num_cells).
C25_MeanRateDurations ==
    lastOp = "calculate_firing_rates" =>
        \A t \in CellTypes :
            /\ IsQuotient(firing_rates[t].cs_mean_fr,
                          1000 * spike_sums[t].cs_spike_sum,
                          csLength * spike_sums[t].num_cells)
            /\ csStart >= 1 =>
                   IsQuotient(firing_rates[t].non_cs_mean_fr,
                              1000 * spike_sums[t].non_cs_spike_sum,
                              csStart * spike_sums[t].num_cells)

IsAscending(q) == \A i \in 1..(Len(q) - 1) : q[i] <= q[i + 1]

\* q holds the elements of r, each as many times
IsPermutation(q, r) ==
    /\ Len(q) = Len(r)
    /\ \A i \in DOMAIN r :
          Cardinality({j \in DOMAIN q : q[j] = r[i]}) =
          Cardinality({j \in DOMAIN r : r[j] = r[i]})

\* C26: calculate_firing_rates changes the tracker only by reordering:
\* after it each per-cell counter sequence is ascending and a permutation
\* of what it was, and cs_spike_sum, non_cs_spike_sum and num_cells of
\* every cell type are unchanged.
C26_RatesOnlyReorder ==
    [][lastOp' = "calculate_firing_rates" =>
          \A t \in CellTypes :
              /\ IsAscending(spike_sums'[t].cs_spike_counter)
              /\ IsAscending(spike_sums'[t].non_cs_spike_counter)
              /\ IsPermutation(spike_sums'[t].cs_spike_counter,
                               spike_sums[t].cs_spike_counter)
              /\ IsPermutation(spike_sums'[t].non_cs_spike_counter,
                               spike_sums[t].non_cs_spike_counter)
              /\ spike_sums'[t].cs_spike_sum = spike_sums[t].cs_spike_sum
              /\ spike_sums'[t].non_cs_spike_sum =
                     spike_sums[t].non_cs_spike_sum
              /\ spike_sums'[t].num_cells = spike_sums[t].num_cells
       ]_vars

\* the rates were computed after one update in which the first cell of a
\* type spiked and its last did not: the counters were reordered
C26_Witness ==
    /\ lastOp = "calculate_firing_rates"
    /\ ncalls = 1
    /\ \E t \in CellTypes :
          /\ spike_sums[t].num_cells >= 2
          /\ cell_spikes[t][1] = 1
          /\ cell_spikes[t][spike_sums[t].num_cells] = 0
          /\ \/ spike_sums[t].cs_spike_counter[spike_sums[t].num_cells] = 1
             \/ spike_sums[t].non_cs_spike_counter[spike_sums[t].num_cells] = 1

(***************************************************************************)
(* C27: countGOSpikes, called by runExperiment at the CS offset on the     *)
(* per-trial Golgi spike counter of num_go elements, sorts and reads only  *)
(* elements at indices within [0, num_go).                                 *)
(***************************************************************************)
C27_CountGOSpikesInBounds ==
    (rpc \in {"x_ts", "x_trial_end"}
     /\ ArgsOf("countGOSpikes", calls) # <<>>) =>
        LET a == countGOSpikes_Accesses(num_go)
        IN  /\ a.sorted[1] >= 0 /\ a.sorted[2] <= num_go
            /\ a.summed[1] >= 0 /\ a.summed[2] <= num_go
            /\ \A i \in a.reads : i >= 0 /\ i < num_go

=============================================================================
